---- MODULE Spec2Model ----
(***************************************************************************)
(* Model of the entity/transform core of the investigation tool:           *)
(*   - Transform.execute (transforms/base.py): validate input, run,        *)
(*     validate output, wrap every failure;                                *)
(*   - GraphManager (ui/managers/graph_manager.py): nodes and edges;       *)
(*   - NodeVisual._execute_transform (ui/components/node_visual.py): the   *)
(*     transform action of a graph node;                                   *)
(*   - AIDock merge resolver (ui/components/ai_dock.py): _normalize_text,  *)
(*     _get_similarity_score, _find_matching_entity, _create_entities;     *)
(*   - Entity and its validators (entities/base.py, event.py, email.py):   *)
(*     construction, validate_properties, to_dict/from_dict, equality;     *)
(*   - load_transforms and load_entities (the two registries);             *)
(*   - Transform._executor and run_in_thread (the shared thread pool);     *)
(*   - the timeline beside the Event nodes, save_investigation and         *)
(*     load_investigation (blackaiops.py, ui/views/graph_view.py);         *)
(*   - GroupManager.create_group and delete_group;                         *)
(*   - StatusManager loading operations of the transforms' runs.           *)
(* The specifications share the variables: SpecTransform, SpecGraph,       *)
(* SpecNode, SpecMerge, SpecEntity, SpecRegistry, SpecDiscovery, SpecPool, *)
(* SpecTimeline, SpecGroups, SpecInvocations and SpecLoading, the last two *)
(* also with fairness (FairInvocations, FairLoading); each one moves the   *)
(* part of the state its operations touch.                                 *)
(***************************************************************************)
EXTENDS Integers, Sequences, FiniteSets, Bags, TLC

VARIABLES
    tx,         \* the Transform.execute invocation: position, transform, outcome
    nodes,      \* GraphManager.nodes: insertion-ordered dict, key -> NodeVisual (its entity)
    edges,      \* GraphManager.edges: edge id "a->b" -> EdgeVisual
    ret,        \* what the last graph-store call returned to its caller
    tasks,      \* pending NodeVisual._execute_transform tasks (awaiting transform.run)
    hashOrder,  \* iteration order of Python str sets in this process (hash seed)
    merge,      \* the nodes the last AIDock._create_entities call returned, each
                \* with whether the resolver had found it in the graph
    libc,       \* the C library of this process: what strftime("%Y") writes for a
                \* year below 1000
    ents,       \* entity objects, of graph nodes or free: [class, label, props, data],
                \* props the insertion-ordered dict `properties` as its items
    res,        \* outcome of the last entity operation: returned value or exception
    reg,        \* the registries TRANSFORMS, ENTITY_TRANSFORMS and ENTITY_TYPES
    pool,       \* Transform._executor, the thread pool shared by all transforms
    tl,     \* the timeline widget, the Event nodes beside it and the saved document
    inv,    \* transform invocations in flight, by where they wait and whether their call returns
    grp,    \* GroupManager.groups and the create_group call in progress
    ld      \* StatusManager loading operations and the transform runs that started them

vars == <<tx, nodes, edges, ret, tasks, hashOrder, merge, libc, ents, res, reg, pool, tl, inv, grp, ld>>

auxVars == <<pool, tl, inv, grp, ld>>

poolFrame == <<tl, inv, grp, ld>>

tlFrame == <<pool, inv, grp, ld>>

invFrame == <<pool, tl, grp, ld>>

grpFrame == <<pool, tl, inv, ld>>

ldFrame == <<pool, tl, inv, grp>>

entityVars == <<ents, res, reg>>

graphVars == <<nodes, edges, ret, tasks, merge>>

(***************************************************************************)
(* Bounds of the model.                                                    *)
(***************************************************************************)
MaxOut == 2          \* longest entity list a run returns
MaxNodes == 2        \* nodes the graph store holds at once
MaxTasks == 1        \* node transform tasks pending at once
MaxBatch == 2        \* entities in one AI "create" operation
MaxEdges == 3        \* edges the graph store holds at once
MaxConns == 1        \* connections in one AI "create" operation
MaxEnts == 2         \* entity objects alive at once
MaxLoads == 2        \* most runs of load_transforms and of load_entities
MaxRegistered == 1   \* input types added by register_input_type
MaxJobs == 12        \* run_in_thread calls in one behaviour
MaxAdded == 2        \* Event entities constructed in one behaviour
MaxEventNodes == 2   \* Event nodes the graph store holds at once
MaxTimeline == 2     \* events the timeline holds at once
MaxFired == 11       \* transform invocations fired in one behaviour
MaxGroups == 4       \* groups the group manager holds at once
MaxRuns == 2         \* transform runs that have not returned
MaxLoading == 4      \* start_loading calls in one behaviour

(***************************************************************************)
(* Helpers on sequences.                                                   *)
(***************************************************************************)
Range(s) == {s[i] : i \in DOMAIN s}

InList(x, s) == \E i \in DOMAIN s : s[i] = x

SeqsUpTo(S, n) == UNION {[1..k -> S] : k \in 0..n}

(***************************************************************************)
(* transforms/base.py and the concrete transforms' declarations.           *)
(***************************************************************************)
EntityClassNames ==
    {"Email", "Username", "Website", "Image", "Location", "Event", "Text", "Person"}

EmailLookup ==
    [name |-> "Email Lookup",
     input_types |-> <<"Email">>,
     output_types |-> <<"Username", "Website", "Image", "Location", "Event">>]

ReverseImageSearch ==
    [name |-> "Reverse Image Search",
     input_types |-> <<"Image">>,
     output_types |-> <<"Image">>]

TextSearch ==
    [name |-> "Text Search",
     input_types |-> <<"Text">>,
     output_types |-> <<"Website", "Username", "Image">>]

UsernameSearch ==
    [name |-> "Username Search",
     input_types |-> <<"Username">>,
     output_types |-> <<"Website", "Username">>]

Transforms == {EmailLookup, ReverseImageSearch, TextSearch, UsernameSearch}

NoTransform == [name |-> "none", input_types |-> <<>>, output_types |-> <<>>]

\* Exception classes a run may raise (all derive from Exception), with str(e).
RunExceptionTypes == {"ValueError", "NotImplementedError"}

\* str(e): a message is the sequence of the fragments it is formatted from
RunMessages == {<<"connection refused">>, <<"Transform must implement run method">>}

\* `sub in msg`
Contains(msg, sub) ==
    \E i \in 1..(Len(msg) - Len(sub) + 1) : SubSeq(msg, i, i + Len(sub) - 1) = sub

\* What a run hands back: a list of entities (their class names), or None.
NotAList == [isList |-> FALSE, items |-> <<>>]

RunResults ==
    {[isList |-> TRUE, items |-> s] : s \in SeqsUpTo(EntityClassNames, MaxOut)}
        \cup {NotAList}

\* isinstance(entities, list)
IsList(r) == r.isList

\* Transform._validate_input
ValidateInput(t, entityClass) == InList(entityClass, t.input_types)

\* Transform._validate_output
ValidateOutput(t, entities) ==
    IF ~IsList(entities)
    THEN FALSE
    ELSE \A i \in DOMAIN entities.items : InList(entities.items[i], t.output_types)

\* f"Entity type {entity.__class__.__name__} not supported by transform {self.name}"
InputErrorMsg(t, entityClass) ==
    <<"Entity type ", entityClass, " not supported by transform ", t.name>>

\* f"Transform {self.name} returned invalid output types"
OutputErrorMsg(t) == <<"Transform ", t.name, " returned invalid output types">>

\* a narrower except clause, `except TransformError as e`
CaughtOnlyTransformErrors(excType) ==
    excType \in {"TransformValidationError", "TransformExecutionError"}

\* the except clause of execute: `except Exception as e` catches every class
\* deriving from Exception, the transform errors raised in the try block included
CaughtByExecute(excType) ==
    excType \in RunExceptionTypes \cup {"TransformValidationError", "TransformExecutionError"}

\* raise TransformExecutionError(f"Transform {self.name} failed: {str(e)}") from e
WrapError(t, exc) ==
    [kind |-> "raised",
     type |-> "TransformExecutionError",
     msg |-> <<"Transform ", t.name, " failed: ">> \o exc.msg,
     cause |-> exc.type]

\* an exception raised inside the try block of execute, as the caller sees it
RaiseInExecute(t, exc) ==
    IF CaughtByExecute(exc.type)
    THEN WrapError(t, exc)
    ELSE [kind |-> "raised", type |-> exc.type, msg |-> exc.msg, cause |-> "none"]

NoOutcome == [kind |-> "none"]

TxIdle ==
    [pc |-> "Idle", transform |-> NoTransform, entity |-> "none",
     runCalls |-> 0, run |-> NoOutcome, out |-> NoOutcome]

\* execute, up to its suspension at `await self.run(entity, graph)`
ExecuteStartResult(t, entityClass) ==
    IF ~ValidateInput(t, entityClass)
    THEN [pc |-> "Failed", transform |-> t, entity |-> entityClass,
          runCalls |-> 0, run |-> NoOutcome,
          out |-> RaiseInExecute(t, [type |-> "TransformValidationError",
                                     msg |-> InputErrorMsg(t, entityClass)])]
    ELSE [pc |-> "Running", transform |-> t, entity |-> entityClass,
          runCalls |-> 1, run |-> NoOutcome, out |-> NoOutcome]

\* execute, from the return of run to its own return or raise
ExecuteAfterRun(cur, result) ==
    IF ~ValidateOutput(cur.transform, result)
    THEN [cur EXCEPT !.pc = "Failed",
                     !.run = [kind |-> "returned", value |-> result],
                     !.out = RaiseInExecute(cur.transform,
                                 [type |-> "TransformValidationError",
                                  msg |-> OutputErrorMsg(cur.transform)])]
    ELSE [cur EXCEPT !.pc = "Succeeded",
                     !.run = [kind |-> "returned", value |-> result],
                     !.out = [kind |-> "returned", value |-> result]]

\* execute, when run raised
ExecuteAfterRaise(cur, exc) ==
    [cur EXCEPT !.pc = "Failed",
                !.run = [kind |-> "raised", type |-> exc.type, msg |-> exc.msg],
                !.out = RaiseInExecute(cur.transform, exc)]

Execute(t, entityClass) ==
    /\ tx.pc /= "Running"
    /\ tx' = ExecuteStartResult(t, entityClass)
    /\ UNCHANGED <<graphVars, hashOrder, libc, auxVars, entityVars>>

RunReturns(result) ==
    /\ tx.pc = "Running"
    /\ tx' = ExecuteAfterRun(tx, result)
    /\ UNCHANGED <<graphVars, hashOrder, libc, auxVars, entityVars>>

RunRaises(exc) ==
    /\ tx.pc = "Running"
    /\ tx' = ExecuteAfterRaise(tx, exc)
    /\ UNCHANGED <<graphVars, hashOrder, libc, auxVars, entityVars>>

(***************************************************************************)
(* Text. A Python str is modelled as the sequence of its characters, so    *)
(* that lower(), re.sub, split and the key format are computed.            *)
(***************************************************************************)
TJaneDoe == <<"J", "a", "n", "e", " ", "D", "o", "e">>

TJaneDoeLower == <<"j", "a", "n", "e", " ", "d", "o", "e">>

TJohnDoe == <<"J", "o", "h", "n", " ", "D", "o", "e">>

TRobberyAtBank == <<"R", "o", "b", "b", "e", "r", "y", " ", "a", "t", " ", "M", "a", "i", "n", " ", "S", "t", "r", "e", "e", "t", " ", "B", "a", "n", "k">>

TBankRobbery == <<"B", "a", "n", "k", " ", "r", "o", "b", "b", "e", "r", "y", " ", "o", "n", " ", "M", "a", "i", "n", " ", "S", "t", "r", "e", "e", "t">>

TClerk == <<"C", "l", "e", "r", "k">>

TIrish == <<"I", "r", "i", "s", "h">>

TUnknown == <<"U", "n", "k", "n", "o", "w", "n">>

TPerson == <<"P", "e", "r", "s", "o", "n">>

TEvent == <<"E", "v", "e", "n", "t">>

TEmail == <<"E", "m", "a", "i", "l">>

TUsername == <<"U", "s", "e", "r", "n", "a", "m", "e">>

TWebsite == <<"W", "e", "b", "s", "i", "t", "e">>

TImage == <<"I", "m", "a", "g", "e">>

TLocation == <<"L", "o", "c", "a", "t", "i", "o", "n">>

TText == <<"T", "e", "x", "t">>

TPropertyObject == <<"<", "p", "r", "o", "p", "e", "r", "t", "y", " ", "o", "b", "j", "e", "c", "t", " ", "a", "t", " ", "0", "x", "7", "f", "f", "3", "9", "9", "e", "c", "2", "5", "2", "0", ">">>

UpperChars == {"A", "B", "C", "D", "E", "F", "G", "H", "I", "J", "K", "L", "M", "N", "O", "P", "Q", "R", "S", "T", "U", "V", "W", "X", "Y", "Z"}

LowerChars == {"a", "b", "c", "d", "e", "f", "g", "h", "i", "j", "k", "l", "m", "n", "o", "p", "q", "r", "s", "t", "u", "v", "w", "x", "y", "z"}

DigitChars == {"0", "1", "2", "3", "4", "5", "6", "7", "8", "9"}

LowerOf ==
    ("A" :> "a") @@ ("B" :> "b") @@ ("C" :> "c") @@ ("D" :> "d") @@ ("E" :> "e") @@ ("F" :> "f") @@
    ("G" :> "g") @@ ("H" :> "h") @@ ("I" :> "i") @@ ("J" :> "j") @@ ("K" :> "k") @@ ("L" :> "l") @@
    ("M" :> "m") @@ ("N" :> "n") @@ ("O" :> "o") @@ ("P" :> "p") @@ ("Q" :> "q") @@ ("R" :> "r") @@
    ("S" :> "s") @@ ("T" :> "t") @@ ("U" :> "u") @@ ("V" :> "v") @@ ("W" :> "w") @@ ("X" :> "x") @@
    ("Y" :> "y") @@ ("Z" :> "z")

\* str.lower(), one character
LowerChar(c) == IF c \in UpperChars THEN LowerOf[c] ELSE c

\* str.lower()
Lower(t) == [i \in DOMAIN t |-> LowerChar(t[i])]

\* \w of the re module: letters, digits, underscore
IsWordChar(c) == c \in UpperChars \cup LowerChars \cup DigitChars \cup {"_"}

\* \s of the re module
IsSpaceChar(c) == c \in {" ", "\t", "\n"}

\* re.sub(r'[^\w\s]', '', text)
StripSpecial(t) == SelectSeq(t, LAMBDA c : IsWordChar(c) \/ IsSpaceChar(c))

\* one character of str.split(): st is [words, cur], the words closed so far and
\* the word being read
SplitStep(st, c) ==
    IF IsSpaceChar(c)
    THEN [words |-> IF st.cur = <<>> THEN st.words ELSE Append(st.words, st.cur),
          cur |-> <<>>]
    ELSE [words |-> st.words, cur |-> Append(st.cur, c)]

RECURSIVE SplitFrom(_, _, _)
SplitFrom(t, i, st) ==
    IF i > Len(t)
    THEN IF st.cur = <<>> THEN st.words ELSE Append(st.words, st.cur)
    ELSE SplitFrom(t, i + 1, SplitStep(st, t[i]))

\* str.split(): the maximal runs of non-whitespace characters, in order
Split(t) == SplitFrom(t, 1, [words |-> <<>>, cur |-> <<>>])

\* ' '.join(words)
RECURSIVE JoinSpace(_)
JoinSpace(ws) ==
    IF ws = <<>> THEN <<>>
    ELSE IF Len(ws) = 1 THEN ws[1]
         ELSE ws[1] \o <<" ">> \o JoinSpace(Tail(ws))

\* AIDock._normalize_text
NormalizeText(t) == JoinSpace(Split(StripSpecial(Lower(t))))


\* str.split(':', 1): <<head, rest>>, or <<t>> when t holds no colon
SplitColon(t) ==
    IF \E i \in DOMAIN t : t[i] = ":"
    THEN LET first == CHOOSE i \in DOMAIN t : t[i] = ":" /\ \A j \in 1..(i - 1) : t[j] /= ":"
         IN <<SubSeq(t, 1, first - 1), SubSeq(t, first + 1, Len(t))>>
    ELSE <<t>>

(***************************************************************************)
(* entities/base.py, entities/person.py, entities/event.py, ...: the part  *)
(* of an entity the graph store and the merge resolver read.               *)
(***************************************************************************)
\* the class attribute `name` of each concrete class, as written in its class body
ClassNameText(cls) ==
    CASE cls = "Person" -> TPerson
      [] cls = "Event" -> TEvent
      [] cls = "Email" -> TEmail
      [] cls = "Username" -> TUsername
      [] cls = "Website" -> TWebsite
      [] cls = "Image" -> TImage
      [] cls = "Text" -> TText
      [] OTHER -> TLocation

\* the property each update_label puts in the label (format_label's primary_props)
PrimaryProp(cls) ==
    CASE cls = "Person" -> "full_name"
      [] cls = "Event" -> "name"
      [] cls = "Email" -> "address"
      [] cls = "Username" -> "username"
      [] cls = "Text" -> "text"
      [] cls = "Location" -> "address"
      [] OTHER -> "title"

\* Entity.type: `self.__class__.name`. Event's class body rebinds `name` to a
\* property after its ClassVar, so on Event the class attribute is the property
\* object and str() of it is its repr.
EntityTypeText(cls) ==
    IF cls = "Event" THEN TPropertyObject ELSE ClassNameText(cls)

\* update_label of the concrete classes: the primary property when it is set and
\* non-empty, else the type's display name
DeriveLabel(cls, props) ==
    IF PrimaryProp(cls) \in DOMAIN props /\ props[PrimaryProp(cls)] /= <<>>
    THEN props[PrimaryProp(cls)]
    ELSE ClassNameText(cls)

\* the properties a constructor call with no arguments leaves: init_properties of
\* Event sets add_to_timeline
DefaultProps(cls) ==
    IF cls = "Event" THEN [add_to_timeline |-> FALSE] ELSE <<>>

\* dict.update
DictUpdate(old, new) ==
    [k \in DOMAIN old \cup DOMAIN new |-> IF k \in DOMAIN new THEN new[k] ELSE old[k]]

\* cls(properties=props) with a fresh uuid: __post_init__, update_data
NewEntity(id, cls, props) ==
    [id |-> id, class |-> cls,
     props |-> DictUpdate(DefaultProps(cls), props),
     label |-> DeriveLabel(cls, DictUpdate(DefaultProps(cls), props))]

NoEntity == [id |-> "", class |-> "", props |-> <<>>, label |-> <<>>]

(***************************************************************************)
(* ui/managers/graph_manager.py. A graph state g is [nodes, edges]:        *)
(* nodes the insertion-ordered dict as the sequence of its items           *)
(* [key, entity] (entity: the node.node of the NodeVisual stored under     *)
(* key); edges the dict as the set of its values, each with its key in     *)
(* `id`. An EdgeVisual holds references to two NodeVisual objects. A       *)
(* reference is [key, live, id]: live, it is the object stored under       *)
(* nodes[key]; once that object has left the dict nothing can change its   *)
(* entity any more, and the reference keeps the id its entity had (`id`).  *)
(***************************************************************************)
Ids == {"n1", "n2"}

Relationships == {"", "knows"}

NodeKeys(g) == {g.nodes[i].key : i \in DOMAIN g.nodes}

\* self.nodes[key].node
EntityAt(g, key) == g.nodes[CHOOSE i \in DOMAIN g.nodes : g.nodes[i].key = key].entity

LiveRef(key) == [key |-> key, live |-> TRUE, id |-> ""]

NoRef == [key |-> "", live |-> FALSE, id |-> ""]

\* ref.node.id
RefEntityId(g, ref) == IF ref.live THEN EntityAt(g, ref.key).id ELSE ref.id

\* the reference, once the object stored under key has left the dict
Detach(g, ref, key) ==
    IF ref.live /\ ref.key = key
    THEN [key |-> key, live |-> FALSE, id |-> EntityAt(g, key).id]
    ELSE ref

\* f"{source_id}->{target_id}"
EdgeId(source_id, target_id) == <<source_id, "->", target_id>>

EdgeIds(g) == {e.id : e \in g.edges}

EdgeAt(g, id) == CHOOSE e \in g.edges : e.id = id

NoEdge == [id |-> <<>>, source |-> NoRef, target |-> NoRef, relationship |-> ""]

\* GraphManager.add_node: the graph after the call
AddNodeG(g, entity) ==
    IF entity.id \in NodeKeys(g)
    THEN g
    ELSE [g EXCEPT !.nodes = Append(g.nodes, [key |-> entity.id, entity |-> entity])]

\* GraphManager.add_node: logger.warning
AddNodeLog(g, entity) ==
    IF entity.id \in NodeKeys(g) THEN "Node already exists" ELSE ""

\* GraphManager.add_edge: the graph after the call
AddEdgeG(g, source_id, target_id, relationship) ==
    IF source_id \notin NodeKeys(g) \/ target_id \notin NodeKeys(g)
    THEN g
    ELSE IF EdgeId(source_id, target_id) \in EdgeIds(g)
         THEN g
         ELSE [g EXCEPT !.edges = g.edges \cup
                  {[id |-> EdgeId(source_id, target_id),
                    source |-> LiveRef(source_id),
                    target |-> LiveRef(target_id),
                    relationship |-> relationship]}]

\* GraphManager.add_edge: the EdgeVisual it returns, NoEdge for None
AddEdgeRet(g, source_id, target_id, relationship) ==
    IF source_id \notin NodeKeys(g) \/ target_id \notin NodeKeys(g)
    THEN NoEdge
    ELSE EdgeAt(AddEdgeG(g, source_id, target_id, relationship),
                EdgeId(source_id, target_id))

\* GraphManager.add_edge: logger.error / logger.warning
AddEdgeLog(g, source_id, target_id) ==
    IF source_id \notin NodeKeys(g) \/ target_id \notin NodeKeys(g)
    THEN "Cannot create edge: node not found"
    ELSE IF EdgeId(source_id, target_id) \in EdgeIds(g)
         THEN "Edge already exists"
         ELSE ""

\* GraphManager.update_node
UpdateNodeG(g, node_id, entity) ==
    IF node_id \notin NodeKeys(g)
    THEN g
    ELSE [g EXCEPT !.nodes =
            [i \in DOMAIN g.nodes |->
                IF g.nodes[i].key = node_id
                THEN [key |-> node_id, entity |-> entity]
                ELSE g.nodes[i]]]

\* the edges remove_node collects: edge.source.node.id or edge.target.node.id
\* equal to node_id
EdgesToRemove(g, node_id) ==
    {e \in g.edges : RefEntityId(g, e.source) = node_id
                        \/ RefEntityId(g, e.target) = node_id}

\* GraphManager.remove_node
RemoveNodeG(g, node_id) ==
    IF node_id \notin NodeKeys(g)
    THEN g
    ELSE [nodes |-> SelectSeq(g.nodes, LAMBDA n : n.key /= node_id),
          edges |-> {[e EXCEPT !.source = Detach(g, e.source, node_id),
                               !.target = Detach(g, e.target, node_id)] :
                        e \in g.edges \ EdgesToRemove(g, node_id)}]

\* GraphManager.update_node / remove_node: logger.warning
NotFoundLog(g, node_id) == IF node_id \in NodeKeys(g) THEN "" ELSE "Node not found"

\* GraphManager.clear
ClearG(g) == [nodes |-> <<>>, edges |-> {}]

\* the references tasks hold to NodeVisual objects, after a call that changed g to h
DetachTasks(g, h, pending) ==
    [i \in DOMAIN pending |->
        IF pending[i].self.live /\ pending[i].self.key \notin NodeKeys(h)
        THEN [pending[i] EXCEPT !.self = Detach(g, pending[i].self, pending[i].self.key)]
        ELSE pending[i]]

Graph == [nodes |-> nodes, edges |-> edges]

SetGraph(g) ==
    /\ nodes' = g.nodes
    /\ edges' = g.edges

GraphClasses == {"Person"}

\* what a call handed back (node: the key of the NodeVisual, edge: the id of the
\* EdgeVisual, <<>> for None) and what it logged
NoRet == [op |-> "none", node |-> "", edge |-> <<>>, log |-> ""]

\* graph_manager.add_node(entity, pos)
AddNode(id, cls) ==
    LET entity == NewEntity(id, cls, <<>>)
    IN /\ Len(nodes) < MaxNodes \/ id \in NodeKeys(Graph)
       /\ SetGraph(AddNodeG(Graph, entity))
       /\ ret' = [op |-> "add_node", node |-> id, edge |-> <<>>,
                  log |-> AddNodeLog(Graph, entity)]
       /\ UNCHANGED <<tx, tasks, hashOrder, libc, auxVars, entityVars, merge>>

\* graph_manager.add_edge(source_id, target_id, relationship)
AddEdge(source_id, target_id, relationship) ==
    /\ Cardinality(edges) < MaxEdges \/ EdgeId(source_id, target_id) \in EdgeIds(Graph)
    /\ SetGraph(AddEdgeG(Graph, source_id, target_id, relationship))
    /\ ret' = [op |-> "add_edge", node |-> "",
               edge |-> AddEdgeRet(Graph, source_id, target_id, relationship).id,
               log |-> AddEdgeLog(Graph, source_id, target_id)]
    /\ UNCHANGED <<tx, tasks, hashOrder, libc, auxVars, entityVars, merge>>

\* graph_manager.update_node(node_id, entity)
UpdateNode(node_id, id, cls) ==
    /\ SetGraph(UpdateNodeG(Graph, node_id, NewEntity(id, cls, <<>>)))
    /\ ret' = [op |-> "update_node", node |-> "", edge |-> <<>>,
               log |-> NotFoundLog(Graph, node_id)]
    /\ UNCHANGED <<tx, tasks, hashOrder, libc, auxVars, entityVars, merge>>

\* graph_manager.remove_node(node_id)
RemoveNode(node_id) ==
    /\ SetGraph(RemoveNodeG(Graph, node_id))
    /\ tasks' = DetachTasks(Graph, RemoveNodeG(Graph, node_id), tasks)
    /\ ret' = [op |-> "remove_node", node |-> "", edge |-> <<>>,
               log |-> NotFoundLog(Graph, node_id)]
    /\ UNCHANGED <<tx, hashOrder, libc, auxVars, entityVars, merge>>

\* graph_manager.clear()
Clear ==
    /\ SetGraph(ClearG(Graph))
    /\ tasks' = DetachTasks(Graph, ClearG(Graph), tasks)
    /\ ret' = [op |-> "clear", node |-> "", edge |-> <<>>, log |-> ""]
    /\ UNCHANGED <<tx, hashOrder, libc, auxVars, entityVars, merge>>

(***************************************************************************)
(* ui/components/node_visual.py: the transform action of a node's context  *)
(* menu. The task calls transform.run itself and adds what it returns.     *)
(***************************************************************************)
\* transforms/__init__.py: ENTITY_TRANSFORMS[entity_type], the menu's entries
EntityTransforms(cls) == {t \in Transforms : InList(cls, t.input_types)}

\* ids uuid4 hands out, in the order the model draws them
UuidPool == <<"u1", "u2", "u3", "u4", "u5", "u6">>

\* every id an object of the state carries
UsedIds(g, pending) ==
    NodeKeys(g)
        \cup {g.nodes[i].entity.id : i \in DOMAIN g.nodes}
        \cup UNION {{e.source.key, e.source.id, e.target.key, e.target.id} : e \in g.edges}
        \cup UNION {{pending[i].self.key, pending[i].self.id} : i \in DOMAIN pending}

\* str(uuid.uuid4()): an id nothing carries yet
FreshId(used) ==
    UuidPool[CHOOSE i \in DOMAIN UuidPool :
                /\ UuidPool[i] \notin used
                /\ \A j \in 1..(i - 1) : UuidPool[j] \in used]

HasFreshId(used) == \E i \in DOMAIN UuidPool : UuidPool[i] \notin used

\* an item of a returned list that is not an Entity
NonEntity == "str"

\* what the run of a node's transform hands back: None, or a list whose items
\* are entities (their class) or other objects
NodeRunItems == {"Website", "Username", "Person", NonEntity}

NodeRunResults ==
    {[isList |-> TRUE, items |-> s] : s \in SeqsUpTo(NodeRunItems, MaxOut)}
        \cup {NotAList}

\* the loop of _execute_transform over new_entities: add_node then add_edge from
\* self.node.id for each item; an item without `id` raises inside add_node
RECURSIVE AddNewEntities(_, _, _, _, _)
AddNewEntities(g, pending, selfRef, items, last) ==
    IF items = <<>>
    THEN [g |-> g, raised |-> FALSE, last |-> last]
    ELSE IF Head(items) = NonEntity
         THEN [g |-> g, raised |-> TRUE, last |-> last]
         ELSE IF ~HasFreshId(UsedIds(g, pending))
              THEN [g |-> g, raised |-> FALSE, last |-> "exhausted"]
              ELSE LET entity == NewEntity(FreshId(UsedIds(g, pending)), Head(items), <<>>)
                       withNode == AddNodeG(g, entity)
                   IN AddNewEntities(
                          AddEdgeG(withNode, RefEntityId(withNode, selfRef), entity.id, ""),
                          pending, selfRef, Tail(items), entity.id)

\* _execute_transform after `await transform.run(...)` returned
ExecuteTransformResult(g, pending, selfRef, result) ==
    IF ~IsList(result) \/ result.items = <<>>
    THEN [g |-> g, raised |-> FALSE, last |-> ""]
    ELSE AddNewEntities(g, pending, selfRef, result.items, "")

\* drop the i-th element
RemoveAt(s, i) == [j \in 1..(Len(s) - 1) |-> IF j < i THEN s[j] ELSE s[j + 1]]

\* _handle_transform_action: create_task(_execute_transform(transform)), run up
\* to its suspension at `await transform.run(self.node, graph_manager)`
HandleTransformAction(key, t) ==
    /\ key \in NodeKeys(Graph)
    /\ t \in EntityTransforms(EntityAt(Graph, key).class)
    /\ Len(tasks) < MaxTasks
    /\ tasks' = Append(tasks, [self |-> LiveRef(key), transform |-> t])
    /\ ret' = [op |-> "transform_action", node |-> key, edge |-> <<>>, log |-> ""]
    /\ UNCHANGED <<tx, nodes, edges, hashOrder, libc, auxVars, entityVars, merge>>

\* _execute_transform, from the return of run to the end of the task
ExecuteTransformReturns(i, result) ==
    LET done == ExecuteTransformResult(Graph, tasks, tasks[i].self, result)
    IN /\ i \in DOMAIN tasks
       /\ done.last /= "exhausted"
       /\ Len(done.g.nodes) <= MaxNodes
       /\ Cardinality(done.g.edges) <= MaxEdges
       /\ SetGraph(done.g)
       /\ tasks' = RemoveAt(tasks, i)
       /\ ret' = [op |-> "transform", node |-> done.last, edge |-> <<>>,
                  log |-> IF done.raised THEN "Transform Error" ELSE ""]
       /\ UNCHANGED <<tx, hashOrder, libc, auxVars, entityVars, merge>>

\* _execute_transform, when run raised: the except clause shows the dialog and
\* re-raises into the task
ExecuteTransformRaises(i, exc) ==
    /\ i \in DOMAIN tasks
    /\ tasks' = RemoveAt(tasks, i)
    /\ ret' = [op |-> "transform", node |-> "", edge |-> <<>>, log |-> "Transform Error"]
    /\ UNCHANGED <<tx, nodes, edges, hashOrder, libc, auxVars, entityVars, merge>>

(***************************************************************************)
(* ui/components/ai_dock.py: the merge resolver. Scores are floats in the  *)
(* code; the model computes them as exact fractions [num, den], den > 0    *)
(* (0.4, 0.2, 1.5, 0.5, 0.7 are 2/5, 1/5, 3/2, 1/2, 7/10).                 *)
(***************************************************************************)
\* the texts this model's labels are made of
LabelTexts ==
    {TJaneDoe, TJaneDoeLower, TJohnDoe, TRobberyAtBank, TBankRobbery,
     TPerson, TEvent, TEmail, TUsername, TWebsite, TImage, TLocation, TText}

\* set(self._normalize_text(label).split()) of those texts, computed once
WordSetOf ==
    [t \in LabelTexts \cup {Lower(x) : x \in LabelTexts} |-> Range(Split(NormalizeText(t)))]

\* set(self._normalize_text(label).split())
WordSet(t) ==
    IF t \in DOMAIN WordSetOf THEN WordSetOf[t] ELSE Range(Split(NormalizeText(t)))

Min(a, b) == IF a <= b THEN a ELSE b

Max(a, b) == IF a >= b THEN a ELSE b

RECURSIVE Gcd(_, _)
Gcd(a, b) == IF b = 0 THEN a ELSE Gcd(b, a % b)

\* the fraction n/d in lowest terms
Rat(n, d) == [num |-> n \div Gcd(n, d), den |-> d \div Gcd(n, d)]

RatAdd(a, b) == Rat(a.num * b.den + b.num * a.den, a.den * b.den)

RatMul(a, b) == Rat(a.num * b.num, a.den * b.den)

RatLess(a, b) == a.num * b.den < b.num * a.den

\* sum(len(word) for word in words)
RECURSIVE SumLen(_)
SumLen(words) ==
    IF words = {} THEN 0
    ELSE LET w == CHOOSE x \in words : TRUE
         IN Len(w) + SumLen(words \ {w})

\* AIDock._get_similarity_score
GetSimilarityScore(words1, words2) ==
    IF words1 = {} \/ words2 = {}
    THEN Rat(0, 1)
    ELSE LET intersection == Cardinality(words1 \cap words2)
             union == Cardinality(words1 \cup words2)
             jaccard == Rat(intersection, union)
             \* avg_len1 = sum1 / n1, avg_len2 = sum2 / n2
             n1 == Cardinality(words1)
             n2 == Cardinality(words2)
             len_ratio == Rat(Min(SumLen(words1) * n2, SumLen(words2) * n1),
                              Max(SumLen(words1) * n2, SumLen(words2) * n1))
             overlap == Rat(intersection, Min(n1, n2))
         IN RatAdd(RatAdd(RatMul(jaccard, Rat(2, 5)), RatMul(len_ratio, Rat(1, 5))),
                   RatMul(overlap, Rat(2, 5)))

\* position of a word in this process's iteration order of str sets
HashRank(order, w) ==
    IF InList(w, order)
    THEN CHOOSE i \in DOMAIN order : order[i] = w
    ELSE Len(order) + 1

\* list(words)[0]
FirstOf(order, words) ==
    CHOOSE w \in words : \A v \in words : HashRank(order, w) <= HashRank(order, v)

\* {w for w in words if len(w) > 4}
SigWords(words) == {w \in words : Len(w) > 4}

\* the score of one candidate, boosts applied
BoostedScore(order, entity_type, label_words, node_words) ==
    LET score == GetSimilarityScore(label_words, node_words)
    IN IF entity_type = Lower(TEvent)
       THEN IF SigWords(label_words) \cap SigWords(node_words) /= {}
            THEN RatMul(score, Rat(3, 2))
            ELSE score
       ELSE IF entity_type = Lower(TPerson) /\ label_words /= {} /\ node_words /= {}
            THEN IF FirstOf(order, label_words) = FirstOf(order, node_words)
                 THEN RatMul(score, Rat(3, 2))
                 ELSE score
            ELSE score

\* threshold = 0.5 if entity_type == "event" else 0.7
Threshold(entity_type) == IF entity_type = Lower(TEvent) THEN Rat(1, 2) ELSE Rat(7, 10)

\* dict lookups on existing_entities: the sequence of its items [key, node]
DictHas(d, key) == \E i \in DOMAIN d : d[i].key = key

DictGet(d, key) == d[CHOOSE i \in DOMAIN d : d[i].key = key].node

\* d[key] = node: a key already present keeps its place
DictSet(d, key, node) ==
    IF DictHas(d, key)
    THEN [i \in DOMAIN d |-> IF d[i].key = key THEN [key |-> key, node |-> node] ELSE d[i]]
    ELSE Append(d, [key |-> key, node |-> node])

\* one pass of the loop of _find_matching_entity: best is [match, score]
MatchStep(order, item, entity_type, label_words, best) ==
    LET parts == SplitColon(Lower(item.key))
    IN IF Len(parts) /= 2
       THEN best
       ELSE IF parts[1] /= entity_type
            THEN best
            ELSE LET score == BoostedScore(order, entity_type, label_words,
                                           WordSet(parts[2]))
                 IN IF RatLess(best.score, score) /\ ~RatLess(score, Threshold(entity_type))
                    THEN [match |-> item.node, score |-> score]
                    ELSE best

\* the loop of _find_matching_entity over nodes.items(), from item i on
RECURSIVE BestMatch(_, _, _, _, _, _)
BestMatch(order, existing, i, entity_type, label_words, best) ==
    IF i > Len(existing)
    THEN best.match
    ELSE BestMatch(order, existing, i + 1, entity_type, label_words,
                   MatchStep(order, existing[i], entity_type, label_words, best))

\* AIDock._find_matching_entity: the matching NodeVisual (its key), "" for None
FindMatchingEntity(order, entity_type, label, existing) ==
    LET key == Lower(entity_type) \o <<":">> \o Lower(label)
    IN IF DictHas(existing, key)
       THEN DictGet(existing, key)
       ELSE BestMatch(order, existing, 1, Lower(entity_type), WordSet(label),
                      [match |-> "", score |-> Rat(0, 1)])

\* entities/__init__.py: the keys of ENTITY_TYPES (the classes the model holds)
EntityTypes == EntityClassNames

\* {k: v for k, v in properties.items() if v and v != "Unknown"}
FilterProps(props) ==
    [k \in {j \in DOMAIN props : props[j] /= <<>> /\ props[j] /= TUnknown} |-> props[k]]

\* f"{node.node.type}:{node.node.label}".lower()
EntityKey(entity) == Lower(EntityTypeText(entity.class) \o <<":">> \o entity.label)

\* the first pass of _create_entities: existing_entities, in the order of nodes
RECURSIVE ExistingEntities(_, _, _)
ExistingEntities(g, i, acc) ==
    IF i > Len(g.nodes)
    THEN acc
    ELSE ExistingEntities(g, i + 1, DictSet(acc, EntityKey(g.nodes[i].entity), g.nodes[i].key))

\* the entity found by the resolver, after properties.update and update_label
MergedEntity(old, props) ==
    [old EXCEPT !.props = DictUpdate(old.props, props),
                !.label = DeriveLabel(old.class, DictUpdate(old.props, props))]

\* the branch `if existing_node:` of the entity loop: the entity is changed in
\* place, then handed to update_node
MergeInto(st, temp, existing_node, entity) ==
    [g |-> UpdateNodeG(UpdateNodeG(st.g, existing_node, entity), entity.id, entity),
     existing |-> DictSet(st.existing, EntityKey(entity), existing_node),
     nodes |-> Append(st.nodes, existing_node),
     log |-> Append(st.log, [node |-> existing_node, matched |-> TRUE]),
     exhausted |-> FALSE]

\* the else branch of the entity loop: a new entity, add_node
CreateNew(st, temp, entity) ==
    [g |-> AddNodeG(st.g, entity),
     existing |-> DictSet(st.existing, EntityKey(entity), entity.id),
     nodes |-> Append(st.nodes, entity.id),
     log |-> Append(st.log, [node |-> entity.id, matched |-> FALSE]),
     exhausted |-> FALSE]

\* the temporary entity of one item: ENTITY_TYPES[entity_type]() with the
\* filtered properties
TempEntity(data) ==
    [class |-> data.type,
     props |-> DictUpdate(DefaultProps(data.type), FilterProps(data.properties)),
     label |-> DeriveLabel(data.type,
                   DictUpdate(DefaultProps(data.type), FilterProps(data.properties)))]

\* the resolver's answer for a temporary entity, then one of the two branches
ResolveEntity(order, pending, st, temp, existing_node) ==
    IF existing_node /= ""
    THEN MergeInto(st, temp, existing_node,
                   MergedEntity(EntityAt(st.g, existing_node), temp.props))
    ELSE IF ~HasFreshId(UsedIds(st.g, pending))
         THEN [st EXCEPT !.exhausted = TRUE]
         ELSE CreateNew(st, temp,
                        NewEntity(FreshId(UsedIds(st.g, pending)), temp.class, temp.props))

\* one pass of the entity loop of _create_entities. st is [g, existing, nodes,
\* log, exhausted]: the graph, existing_entities, the local list `nodes`, and for
\* each entity of `nodes` whether the resolver found it (log).
CreateEntityStep(order, pending, st, data, temp) ==
    IF data.type \notin EntityTypes
    THEN st
    ELSE ResolveEntity(order, pending, st, temp,
             FindMatchingEntity(order, ClassNameText(data.type), temp.label, st.existing))

\* the entity loop of _create_entities, from the first of items on
RECURSIVE CreateEntityItems(_, _, _, _)
CreateEntityItems(order, pending, st, items) ==
    IF items = <<>> \/ st.exhausted
    THEN st
    ELSE CreateEntityItems(order, pending,
             CreateEntityStep(order, pending, st, Head(items), TempEntity(Head(items))),
             Tail(items))

\* the last node of the list whose label is `label` and is not `other`
RECURSIVE LastLabelled(_, _, _, _, _)
LastLabelled(g, created, label, other, found) ==
    IF created = <<>>
    THEN found
    ELSE LastLabelled(g, Tail(created), label, other,
             IF EntityAt(g, Head(created)).label = label
                /\ EntityAt(g, Head(created)).label /= other
             THEN Head(created)
             ELSE found)

\* source and target of one connection: by index, or else by label
ConnectionEnds(g, created, conn) ==
    IF conn.byIndex
    THEN IF 0 <= conn.from /\ conn.from < Len(created)
            /\ 0 <= conn.to /\ conn.to < Len(created)
         THEN <<created[conn.from + 1], created[conn.to + 1]>>
         ELSE <<"", "">>
    ELSE <<LastLabelled(g, created, conn.fromLabel, <<"">>, ""),
           LastLabelled(g, created, conn.toLabel, conn.fromLabel, "")>>

\* one pass of the connection loop of _create_entities (edge_pairs only spares
\* add_edge calls that would return the existing edge)
ConnectionStep(g, conn, ends) ==
    IF ends[1] = "" \/ ends[2] = ""
    THEN g
    ELSE IF EntityAt(g, ends[1]).id = EntityAt(g, ends[2]).id
         THEN g
         ELSE AddEdgeG(g, EntityAt(g, ends[1]).id, EntityAt(g, ends[2]).id,
                       conn.relationship)

\* the connection loop of _create_entities
RECURSIVE CreateConnections(_, _, _)
CreateConnections(g, created, conns) ==
    IF conns = <<>>
    THEN g
    ELSE CreateConnections(
             ConnectionStep(g, Head(conns), ConnectionEnds(g, created, Head(conns))),
             created, Tail(conns))

\* _create_entities, once the two loops have run
CreateEntitiesDone(made, done) ==
    /\ ~made.exhausted
    /\ Len(done.nodes) <= MaxNodes
    /\ Cardinality(done.edges) <= MaxEdges
    /\ SetGraph(done)
    /\ merge' = made.log
    /\ ret' = [op |-> "create_entities", node |-> "", edge |-> <<>>, log |-> ""]
    /\ UNCHANGED <<tx, tasks, hashOrder, libc, auxVars, entityVars>>

CreateEntitiesLoops(made, connections) ==
    CreateEntitiesDone(made, CreateConnections(made.g, made.nodes, connections))

\* AIDock._create_entities(data)
CreateEntities(data) ==
    CreateEntitiesLoops(
        CreateEntityItems(hashOrder, tasks,
            [g |-> Graph, existing |-> ExistingEntities(Graph, 1, <<>>),
             nodes |-> <<>>, log |-> <<>>, exhausted |-> FALSE],
            data.entities),
        data.connections)

(***************************************************************************)
(* entities/base.py, entities/event.py: property values and validators.    *)
(* A Python value is [ty, s]: the name of its type and its str() text; an  *)
(* outcome of a validator is [ok, value, exc], exc the class of the        *)
(* exception raised when ok is FALSE.                                      *)
(***************************************************************************)
PyValue(ty, s) == [ty |-> ty, s |-> s]

\* a validator's two outcomes
Accepted(value) == [ok |-> TRUE, value |-> value, exc |-> ""]

Rejected(value, exc) == [ok |-> FALSE, value |-> value, exc |-> exc]

\* the value of a text of decimal digits
RECURSIVE DigitsToInt(_)
DigitsToInt(s) ==
    IF s = <<>> THEN 0
    ELSE DigitsToInt(SubSeq(s, 1, Len(s) - 1)) * 10
         + (CHOOSE d \in 0..9 : <<"0", "1", "2", "3", "4", "5", "6", "7", "8", "9">>[d + 1] = s[Len(s)])

\* str(n) of an int n >= 0
RECURSIVE IntToDigits(_)
IntToDigits(n) ==
    IF n < 10 THEN <<<<"0", "1", "2", "3", "4", "5", "6", "7", "8", "9">>[n + 1]>>
    ELSE Append(IntToDigits(n \div 10), <<"0", "1", "2", "3", "4", "5", "6", "7", "8", "9">>[(n % 10) + 1])

\* a text int() parses: decimal digits (texts with a sign, blanks or underscores
\* are outside the values of this model)
IsDigits(s) == s /= <<>> /\ \A i \in DOMAIN s : s[i] \in DigitChars

\* bool(value)
Truthy(value) ==
    CASE value.ty = "bool" -> value.s = <<"T", "r", "u", "e">>
      [] value.ty = "int" -> DigitsToInt(value.s) /= 0
      [] value.ty = "NoneType" -> FALSE
      [] OTHER -> value.s /= <<>>

\* PropertyValidator.validate: the value itself when it is an instance of the
\* property type (a bool is an instance of int), else property_type(value), and
\* PropertyValidationError when that raises ValueError or TypeError
Convert(ty, value) ==
    CASE value.ty = ty \/ (ty = "int" /\ value.ty = "bool") -> Accepted(value)
      [] ty = "str" -> Accepted(PyValue("str", value.s))
      [] ty = "bool" ->
            Accepted(PyValue("bool", IF Truthy(value) THEN <<"T", "r", "u", "e">>
                                     ELSE <<"F", "a", "l", "s", "e">>))
      [] ty = "int" /\ value.ty = "str" /\ IsDigits(value.s) ->
            Accepted(PyValue("int", IntToDigits(DigitsToInt(value.s))))
      [] ty = "float" /\ value.ty \in {"int", "str"} /\ IsDigits(value.s) ->
            Accepted(PyValue("float", IntToDigits(DigitsToInt(value.s)) \o <<".", "0">>))
      [] OTHER -> Rejected(value, "PropertyValidationError")

\* re.match of [a-zA-Z0-9.-]+\.[a-zA-Z]{2,} against the whole of t
MatchesDomain(t) ==
    \E d \in 2..(Len(t) - 2) :
        /\ t[d] = "."
        /\ \A i \in 1..(d - 1) : t[i] \in UpperChars \cup LowerChars \cup DigitChars \cup {".", "-"}
        /\ \A i \in (d + 1)..Len(t) : t[i] \in UpperChars \cup LowerChars

\* pattern.match(value) of the patterns of EmailValidator ("email") and of the
\* domain validator of Email ("domain"); `$` also matches before a final newline
PatternMatch(pattern, s) ==
    LET Body(t) ==
            IF pattern = "domain"
            THEN MatchesDomain(t)
            ELSE \E a \in 2..Len(t) :
                    /\ t[a] = "@"
                    /\ \A i \in 1..(a - 1) :
                          t[i] \in UpperChars \cup LowerChars \cup DigitChars
                                   \cup {".", "_", "%", "+", "-"}
                    /\ MatchesDomain(SubSeq(t, a + 1, Len(t)))
    IN \/ Body(s)
       \/ s /= <<>> /\ s[Len(s)] = "\n" /\ Body(SubSeq(s, 1, Len(s) - 1))

\* str.split(sep): the fields between the occurrences of sep
SplitOn(t, sep) ==
    LET cuts == {0, Len(t) + 1} \cup {i \in DOMAIN t : t[i] = sep}
        Nth(k) == CHOOSE c \in cuts : Cardinality({x \in cuts : x < c}) = k - 1
    IN [k \in 1..(Cardinality(cuts) - 1) |-> SubSeq(t, Nth(k) + 1, Nth(k + 1) - 1)]

\* datetime.strptime(t, "%Y-%m-%d %H:%M"), and with ":%S" when seconds: the
\* datetime <<year, month, day, hour, minute>> or <<.., second>> in a set, the
\* empty set for ValueError. The year takes four digits, every other field one
\* or two.
StrpTime(t, seconds) ==
    {n \in {[k \in DOMAIN f |-> DigitsToInt(f[k])] :
              f \in {p[1] \o p[2] :
                       p \in {q \in {<<SplitOn(h[1], "-"), SplitOn(h[2], ":")>> :
                                       h \in {w \in {Split(t)} :
                                                /\ Len(w) = 2
                                                /\ ~IsSpaceChar(t[1])
                                                /\ ~IsSpaceChar(t[Len(t)])}} :
                                /\ Len(q[1]) = 3
                                /\ Len(q[2]) = (IF seconds THEN 3 ELSE 2)
                                /\ \A k \in 1..3 : IsDigits(q[1][k])
                                /\ \A k \in DOMAIN q[2] : IsDigits(q[2][k])
                                /\ Len(q[1][1]) = 4
                                /\ Len(q[1][2]) <= 2 /\ Len(q[1][3]) <= 2
                                /\ \A k \in DOMAIN q[2] : Len(q[2][k]) <= 2}}} :
        /\ n[1] >= 1
        /\ n[2] >= 1 /\ n[2] <= 12
        /\ n[3] >= 1
        /\ n[3] <= (IF n[2] \in {4, 6, 9, 11} THEN 30
                    ELSE IF n[2] /= 2 THEN 31
                         ELSE IF n[1] % 4 = 0 /\ (n[1] % 100 /= 0 \/ n[1] % 400 = 0)
                              THEN 29 ELSE 28)
        /\ n[4] <= 23
        /\ n[5] <= 59
        /\ (seconds => n[6] <= 59)}

\* the C libraries: strftime("%Y") of glibc writes the year without padding,
\* that of the Windows runtime pads it to four digits
Libcs == {"glibc", "msvcrt"}

\* dt.strftime("%Y-%m-%d %H:%M") in a process linked with the C library c
StrfTime(dt, c) ==
    LET Pad(n, width) ==
            [i \in 1..Max(width - Len(IntToDigits(n)), 0) |-> "0"] \o IntToDigits(n)
    IN Pad(dt[1], IF c = "glibc" THEN 1 ELSE 4)
       \o <<"-">> \o Pad(dt[2], 2) \o <<"-">> \o Pad(dt[3], 2)
       \o <<" ">> \o Pad(dt[4], 2) \o <<":">> \o Pad(dt[5], 2)

\* DateTimeValidator.validate: a datetime is formatted; a text is parsed without
\* seconds, then with seconds, and formatted, or ValueError is raised
DateTimeValidate(value, c) ==
    IF StrpTime(value.s, value.ty = "datetime") \cup StrpTime(value.s, TRUE) = {}
    THEN Rejected(PyValue("str", value.s), "ValueError")
    ELSE CHOOSE r \in {Accepted(PyValue("str", StrfTime(dt, c))) :
                         dt \in IF StrpTime(value.s, value.ty = "datetime") /= {}
                                THEN StrpTime(value.s, value.ty = "datetime")
                                ELSE StrpTime(value.s, TRUE)} : TRUE

\* the validators: [kind, ty, min_length, pattern, bounded, min_value, max_value]
Validator(kind, ty, min_length, pattern, bounded, min_value, max_value) ==
    [kind |-> kind, ty |-> ty, min_length |-> min_length, pattern |-> pattern,
     bounded |-> bounded, min_value |-> min_value, max_value |-> max_value]

\* validator.validate(value) of PropertyValidator, StringValidator,
\* IntegerValidator, FloatValidator and DateTimeValidator
Validate(validator, value, c) ==
    LET r == Convert(validator.ty, value)
        \* the number a converted int or float holds (its integral part)
        num == DigitsToInt(SelectSeq(SplitOn(r.value.s, ".")[1], LAMBDA ch : ch \in DigitChars))
    IN CASE validator.kind = "DateTime" -> DateTimeValidate(value, c)
         [] ~r.ok -> r
         [] validator.kind = "String" ->
               IF Len(r.value.s) < validator.min_length
               THEN Rejected(r.value, "PropertyValidationError")
               ELSE IF validator.pattern /= "" /\ ~PatternMatch(validator.pattern, r.value.s)
                    THEN Rejected(r.value, "PropertyValidationError")
                    ELSE r
         [] validator.kind \in {"Integer", "Float"} ->
               IF validator.bounded /\ (num < validator.min_value \/ num > validator.max_value)
               THEN Rejected(r.value, "PropertyValidationError")
               ELSE r
         [] OTHER -> r

(***************************************************************************)
(* entities/base.py, person.py, event.py, email.py: the entity objects. An *)
(* entity is [class, label, props, data]: props the dict `properties` as   *)
(* the sequence of its items [key, value], data the EntityData [id, type,  *)
(* label, color] (its properties are the same dict object as props).       *)
(***************************************************************************)
\* the classes of which this part of the model builds objects
LabClasses == {"Person", "Event", "Email"}

\* property_types after __post_init__: the properties init_properties declares,
\* then the standard ones
PropertyTypes(cls) ==
    (CASE cls = "Person" ->
             [full_name |-> "str", age |-> "int", height |-> "float",
              nationality |-> "str", occupation |-> "str"]
       [] cls = "Event" ->
             [name |-> "str", description |-> "str", start_date |-> "str",
              end_date |-> "str", add_to_timeline |-> "bool"]
       [] OTHER -> [address |-> "str", domain |-> "str"])
    @@ [notes |-> "str", source |-> "str", image |-> "str"]

\* Entity.create_validator
CreateValidator(ty) ==
    CASE ty = "str" -> Validator("String", "str", 0, "", FALSE, 0, 0)
      [] ty = "int" -> Validator("Integer", "int", 0, "", FALSE, 0, 0)
      [] ty = "float" -> Validator("Float", "float", 0, "", FALSE, 0, 0)
      [] OTHER -> Validator("Property", ty, 0, "", FALSE, 0, 0)

\* property_validators after __post_init__: setup_properties' defaults, then the
\* validators init_properties puts over them
PropertyValidators(cls) ==
    LET own ==
            CASE cls = "Person" ->
                     [full_name |-> Validator("String", "str", 2, "", FALSE, 0, 0),
                      age |-> Validator("Integer", "int", 0, "", TRUE, 0, 150),
                      height |-> Validator("Float", "float", 0, "", TRUE, 0, 300),
                      nationality |-> Validator("String", "str", 2, "", FALSE, 0, 0)]
              [] cls = "Event" ->
                     [start_date |-> Validator("DateTime", "str", 0, "", FALSE, 0, 0),
                      end_date |-> Validator("DateTime", "str", 0, "", FALSE, 0, 0)]
              [] OTHER ->
                     [address |-> Validator("String", "str", 0, "email", FALSE, 0, 0),
                      domain |-> Validator("String", "str", 3, "domain", FALSE, 0, 0)]
    IN [k \in DOMAIN PropertyTypes(cls) |->
            IF k \in DOMAIN own THEN own[k] ELSE CreateValidator(PropertyTypes(cls)[k])]

\* properties[key] = value: a key already present keeps its place
PropSet(items, key, value) ==
    IF \E i \in DOMAIN items : items[i].key = key
    THEN [i \in DOMAIN items |->
              IF items[i].key = key THEN [key |-> key, value |-> value] ELSE items[i]]
    ELSE Append(items, [key |-> key, value |-> value])

\* Entity.validate_properties from item i on: [props, exc, property_name], props
\* the dict as the loop leaves it, exc "" when the loop ends without raising
RECURSIVE ValidateProperties(_, _, _, _)
ValidateProperties(cls, items, i, c) ==
    LET name == items[i].key
        r == Validate(PropertyValidators(cls)[name], items[i].value, c)
    IN IF i > Len(items)
       THEN [props |-> items, exc |-> "", property_name |-> ""]
       ELSE IF name \notin DOMAIN PropertyTypes(cls)
            THEN [props |-> items, exc |-> "PropertyValidationError", property_name |-> name]
            ELSE IF ~r.ok
                 THEN [props |-> items, exc |-> r.exc,
                       property_name |->
                           IF r.exc = "PropertyValidationError" THEN name ELSE ""]
                 ELSE ValidateProperties(cls, [items EXCEPT ![i].value = r.value], i + 1, c)

\* update_label of the concrete classes on the items of properties
LabelOf(cls, items) ==
    DeriveLabel(cls, [k \in {items[i].key : i \in DOMAIN items} |->
                        LET v == items[CHOOSE i \in DOMAIN items : items[i].key = k].value
                        IN IF Truthy(v) THEN v.s ELSE <<>>])

\* the class attribute `color`
ClassColor(cls) ==
    CASE cls = "Person" -> "#4CAF50"
      [] cls = "Event" -> "#F22416"
      [] OTHER -> "#2196F3"

\* address.split("@")[0], the text before the first "@"
EmailLocalPart(address) ==
    SplitOn(address, "@")[1]

\* address.split("@")[1] of Email.__post_init__: the text between the first "@"
\* and the next one
EmailDomain(address) ==
    SplitOn(address, "@")[2]

\* init_properties on the properties handed to the constructor: Event sets
\* add_to_timeline when it is absent
InitProperties(cls, items) ==
    IF cls = "Event" /\ ~\E i \in DOMAIN items : items[i].key = "add_to_timeline"
    THEN PropSet(items, "add_to_timeline", PyValue("bool", <<"F", "a", "l", "s", "e">>))
    ELSE items

\* __post_init__ after validate_properties returned or raised v: update_data with
\* the uuid id, then Email.__post_init__ derives domain; [ok, entity, exc,
\* property_name]
PostInit(cls, id, v) ==
    IF v.exc /= ""
    THEN [ok |-> FALSE, entity |-> NoEntity, exc |-> v.exc, property_name |-> v.property_name]
    ELSE IF /\ cls = "Email"
            /\ \E i \in DOMAIN v.props : v.props[i].key = "address"
            /\ ~\E i \in DOMAIN v.props : v.props[i].key = "domain"
         THEN IF \A i \in DOMAIN v.props :
                    v.props[i].key = "address" => Len(SplitOn(v.props[i].value.s, "@")) >= 2
              THEN [ok |-> TRUE,
                    entity |->
                        [class |-> cls, label |-> LabelOf(cls, v.props),
                         props |-> Append(v.props,
                             [key |-> "domain",
                              value |-> PyValue("str",
                                  EmailDomain(v.props[CHOOSE i \in DOMAIN v.props :
                                                  v.props[i].key = "address"].value.s))]),
                         data |-> [id |-> id, type |-> cls, label |-> LabelOf(cls, v.props),
                                   color |-> ClassColor(cls)]],
                    exc |-> "", property_name |-> ""]
              ELSE [ok |-> FALSE, entity |-> NoEntity, exc |-> "PropertyValidationError",
                    property_name |-> "address"]
         ELSE [ok |-> TRUE,
               entity |-> [class |-> cls, label |-> LabelOf(cls, v.props), props |-> v.props,
                           data |-> [id |-> id, type |-> cls, label |-> LabelOf(cls, v.props),
                                     color |-> ClassColor(cls)]],
               exc |-> "", property_name |-> ""]

\* cls(label=label, properties=items): the label argument is overwritten by
\* update_label
Construct(cls, label, items, id, c) ==
    PostInit(cls, id, ValidateProperties(cls, InitProperties(cls, items), 1, c))

\* Entity.update_data: update_label, then a new EntityData that keeps the id
UpdateData(e) ==
    [e EXCEPT !.label = LabelOf(e.class, e.props),
              !.data = [id |-> e.data.id, type |-> e.class,
                        label |-> LabelOf(e.class, e.props), color |-> ClassColor(e.class)]]

\* Entity.to_dict: self.data.to_dict()
ToDict(e) ==
    [id |-> e.data.id, type |-> e.data.type, label |-> e.data.label,
     properties |-> e.props, color |-> e.data.color]

\* Entity.from_dict: entity_class(label=data["label"]) runs __post_init__ on empty
\* properties, then properties and data are assigned; fresh is the uuid the
\* constructor draws and the assignment of data drops
FromDict(d, fresh, c) ==
    [Construct(d.type, d.label, <<>>, fresh, c).entity
        EXCEPT !.props = d.properties,
               !.data = [id |-> d.id, type |-> d.type, label |-> d.label, color |-> d.color]]

\* a == b of two distinct objects: the __eq__ that @dataclass writes into every
\* concrete class (Entity.__eq__ is inherited by none of them) compares the
\* fields (label, properties) of two objects of one class
EntityEq(a, b) ==
    /\ a.class = b.class
    /\ a.label = b.label
    /\ Range(a.props) = Range(b.props)

(***************************************************************************)
(* Operations on entity objects: construction, validate_properties, the    *)
(* property editor of a node (ui/components/node_visual.py), update_data,  *)
(* to_dict and from_dict.                                                  *)
(***************************************************************************)
\* the constructor calls of the model: a class and the items of `properties`
PropertyInputs ==
    {[cls |-> "Person", items |-> <<[key |-> "age", value |-> PyValue("str", <<"4", "2">>)], [key |-> "full_name", value |-> PyValue("str", <<"A", "l">>)]>>],
     [cls |-> "Person", items |-> <<[key |-> "age", value |-> PyValue("str", <<"x">>)], [key |-> "bogus", value |-> PyValue("str", <<"A", "l">>)]>>],
     [cls |-> "Person", items |-> <<[key |-> "bogus", value |-> PyValue("str", <<"A", "l">>)]>>],
     [cls |-> "Event", items |-> <<[key |-> "name", value |-> PyValue("str", <<"A", "l">>)], [key |-> "start_date", value |-> PyValue("str", <<"2", "0", "2", "4", "-", "0", "1", "-", "0", "5", " ", "1", "0", ":", "3", "0", ":", "1", "5">>)]>>],
     [cls |-> "Event", items |-> <<[key |-> "start_date", value |-> PyValue("str", <<"0", "9", "9", "9", "-", "0", "1", "-", "0", "1", " ", "0", "0", ":", "0", "0">>)]>>],
     [cls |-> "Event", items |-> <<[key |-> "start_date", value |-> PyValue("str", <<"s", "o", "o", "n">>)], [key |-> "bogus", value |-> PyValue("str", <<"A", "l">>)]>>],
     [cls |-> "Email", items |-> <<[key |-> "address", value |-> PyValue("str", <<"u", "@", "e", ".", "c", "o">>)]>>],
     [cls |-> "Email", items |-> <<[key |-> "address", value |-> PyValue("str", <<"n", "o", "t">>)]>>],
     [cls |-> "Email", items |-> <<[key |-> "address", value |-> PyValue("str", <<"u", "@">>)]>>]}

\* what PropertyEditor.get_properties hands to _edit_properties: the text of the
\* dialog's fields, here the fields the user changed
EditInputs ==
    {<<[key |-> "age", value |-> PyValue("str", <<"x">>)]>>,
     <<[key |-> "full_name", value |-> PyValue("str", <<>>)]>>}

\* the outcome of an entity operation: `at` the place in ents of the object made
\* or changed, src the place of the object it was made from (0 for none)
Outcome(op, cls, input, exc, property_name, at, src) ==
    [op |-> op, cls |-> cls, input |-> input, exc |-> exc,
     property_name |-> property_name, at |-> at, src |-> src]

NoRes == Outcome("none", "", <<>>, "", "", 0, 0)

\* ids of the objects of ents
LabIds == {ents[i].data.id : i \in DOMAIN ents}

\* entity = cls(properties=items)
ConstructEntity(cls, items) ==
    /\ Len(ents) < MaxEnts
    /\ \E made \in {Construct(cls, <<>>, items, FreshId(LabIds), libc)} :
          IF made.ok
          THEN /\ ents' = Append(ents, made.entity)
               /\ res' = Outcome("construct", cls, items, "", "", Len(ents) + 1, 0)
          ELSE /\ ents' = ents
               /\ res' = Outcome("construct", cls, items, made.exc, made.property_name, 0, 0)
    /\ UNCHANGED <<tx, graphVars, hashOrder, libc, auxVars, reg>>

\* ents[i].validate_properties()
ValidatePropertiesCall(i) ==
    /\ i \in DOMAIN ents
    /\ \E v \in {ValidateProperties(ents[i].class, ents[i].props, 1, libc)} :
          /\ ents' = [ents EXCEPT ![i].props = v.props]
          /\ res' = Outcome("validate_properties", ents[i].class, ents[i].props,
                            v.exc, v.property_name, i, 0)
    /\ UNCHANGED <<tx, graphVars, hashOrder, libc, auxVars, reg>>

\* properties after `for key, value in updated_properties.items():
\* self.node.properties[key] = value`
RECURSIVE ApplyUpdates(_, _)
ApplyUpdates(items, updates) ==
    IF updates = <<>> THEN items
    ELSE ApplyUpdates(PropSet(items, updates[1].key, updates[1].value), Tail(updates))

\* NodeVisual._edit_properties with an accepted dialog: the editor has a field
\* for each declared property; the values are stored, update_label is called
EditProperties(i, updates) ==
    /\ i \in DOMAIN ents
    /\ \A j \in DOMAIN updates : updates[j].key \in DOMAIN PropertyTypes(ents[i].class)
    /\ \E updated \in {ApplyUpdates(ents[i].props, updates)} :
          ents' = [ents EXCEPT ![i].props = updated,
                               ![i].label = LabelOf(ents[i].class, updated)]
    /\ res' = Outcome("edit_properties", ents[i].class, updates, "", "", i, 0)
    /\ UNCHANGED <<tx, graphVars, hashOrder, libc, auxVars, reg>>

\* ents[i].update_data()
UpdateDataCall(i) ==
    /\ i \in DOMAIN ents
    /\ ents' = [ents EXCEPT ![i] = UpdateData(ents[i])]
    /\ res' = Outcome("update_data", ents[i].class, <<>>, "", "", i, 0)
    /\ UNCHANGED <<tx, graphVars, hashOrder, libc, auxVars, reg>>

\* Entity.from_dict(ents[i].to_dict()), as GraphManager.from_dict restores a node
FromDictCall(i) ==
    /\ i \in DOMAIN ents
    /\ Len(ents) < MaxEnts
    /\ ents' = Append(ents, FromDict(ToDict(ents[i]), FreshId(LabIds), libc))
    /\ res' = Outcome("from_dict", ents[i].class, <<>>, "", "", Len(ents) + 1, i)
    /\ UNCHANGED <<tx, graphVars, hashOrder, libc, auxVars, reg>>

(***************************************************************************)
(* transforms/__init__.py and entities/__init__.py: the registries. reg is *)
(* [transforms, entity_transforms, entity_types, input_types, loads,       *)
(* entity_loads]: TRANSFORMS a list of instances [cls, gen] (gen tells the *)
(* instances of one run from those of another), ENTITY_TRANSFORMS the dict *)
(* as its items [key, list], ENTITY_TYPES the dict as a function from      *)
(* names to classes, input_types the class attribute of every transform    *)
(* class, which register_input_type extends, error the exception the last  *)
(* loader call raised ("" for none) and failed the module whose import     *)
(* raised it.                                                              *)
(***************************************************************************)
\* the module-level statements before the first load: empty registries
RegInit ==
    [transforms |-> <<>>, entity_transforms |-> <<>>, entity_types |-> <<>>,
     input_types |-> [n \in {t.name : t \in Transforms} |->
                         (CHOOSE t \in Transforms : t.name = n).input_types],
     loads |-> 0, entity_loads |-> 0, error |-> "", failed |-> ""]

\* the entity type names handed to register_input_type
RegisteredTypes == {"Email", "Username"}

\* the input types register_input_type has added to the classes
Registered(r) ==
    {p \in (DOMAIN r.input_types) \X (1..Cardinality(EntityClassNames)) :
        /\ p[2] \in DOMAIN r.input_types[p[1]]
        /\ p[2] > Len(RegInit.input_types[p[1]])}

\* cls.register_input_type(entity_type)
RegisterInputType(cls, entity_type) ==
    /\ Cardinality(Registered(reg)) < MaxRegistered
    /\ reg' = IF InList(entity_type, reg.input_types[cls])
              THEN reg
              ELSE [reg EXCEPT !.input_types[cls] = Append(@, entity_type)]
    /\ UNCHANGED <<tx, graphVars, hashOrder, libc, auxVars, ents, res>>

\* a transform class with the input_types it has now
ClassNow(t) == [t EXCEPT !.input_types = reg.input_types[t.name]]

\* orders in which os.listdir can list the transform modules (one class each)
ListingOrders ==
    {o \in [1..Cardinality(Transforms) -> Transforms] :
        \A i, j \in DOMAIN o : i /= j => o[i] /= o[j]}

\* isinstance(t, obj): every transform class derives from Transform directly
IsInstance(inst, cls) == inst.cls = cls

\* an index over what a transform hands back
IndexedTypesWrong(t) == t.output_types

\* the attribute load_transforms indexes an instance by:
\* `for input_type in transform_instance.input_types`
IndexedTypes(t) == t.input_types

\* the loop `for input_type in transform_instance.input_types` from type i on
RECURSIVE IndexTransform(_, _, _, _)
IndexTransform(index, inst, types, i) ==
    IF i > Len(types)
    THEN index
    ELSE IndexTransform(
             LET at == {k \in DOMAIN index : index[k].key = types[i]}
                 with == IF at = {}
                         THEN Append(index, [key |-> types[i], list |-> <<>>])
                         ELSE index
                 k == CHOOSE x \in DOMAIN with : with[x].key = types[i]
             IN IF \E x \in DOMAIN with[k].list : IsInstance(with[k].list[x], inst.cls)
                THEN with
                ELSE [with EXCEPT ![k].list = Append(@, inst)],
             inst, types, i + 1)

\* the loop over the modules from module i on: loaded is loaded_transform_classes
RECURSIVE LoadModules(_, _, _, _, _)
LoadModules(order, i, r, loaded, gen) ==
    IF i > Len(order)
    THEN r
    ELSE LoadModules(order, i + 1,
             IF order[i].name \in loaded
             THEN r
             ELSE [r EXCEPT
                     !.transforms = Append(@, [cls |-> order[i].name, gen |-> gen]),
                     !.entity_transforms =
                         IndexTransform(@, [cls |-> order[i].name, gen |-> gen],
                                        IndexedTypes(order[i]), 1)],
             loaded \cup {order[i].name}, gen)

\* load_transforms(): clear both registries, then index every class found
LoadTransforms(order) ==
    /\ reg.loads < MaxLoads
    /\ reg' = LoadModules([i \in DOMAIN order |-> ClassNow(order[i])], 1,
                  [reg EXCEPT !.transforms = <<>>, !.entity_transforms = <<>>,
                              !.loads = reg.loads + 1, !.error = "", !.failed = ""],
                  {}, reg.loads + 1)
    /\ UNCHANGED <<tx, graphVars, hashOrder, libc, auxVars, ents, res>>

\* load_entities(): ENTITY_TYPES[obj.__name__] = obj for every concrete class of
\* every module; a class object is named by its module and its name
LoadEntities ==
    /\ reg.entity_loads < MaxLoads
    /\ reg' = [reg EXCEPT
                 !.entity_types =
                     [n \in DOMAIN reg.entity_types \cup EntityClassNames |->
                         IF n \in EntityClassNames
                         THEN [module |-> Lower(ClassNameText(n)), name |-> n]
                         ELSE reg.entity_types[n]],
                 !.entity_loads = reg.entity_loads + 1, !.error = "", !.failed = ""]
    /\ UNCHANGED <<tx, graphVars, hashOrder, libc, auxVars, ents, res>>

\* the modules importlib.import_module cannot import where their third-party
\* package is not installed: transforms/email_lookup.py imports ghunt,
\* entities/location.py imports geopy
UnimportableTransforms == {EmailLookup.name}

UnimportableEntities == {"Location"}

\* classes whose modules os.listdir lists before entities/location.py: none,
\* one, all the others
ListedBefore == {{}, {"Person"}, EntityClassNames \ UnimportableEntities}

\* the modules listed before the first one whose import raises
BeforeFailure(order, broken) ==
    SubSeq(order, 1, (CHOOSE k \in DOMAIN order :
                         /\ order[k].name \in broken
                         /\ \A j \in 1..(k - 1) : order[j].name \notin broken) - 1)

\* load_transforms() where the import of a module raises: import_module is in no
\* try block, the exception leaves load_transforms after the modules listed
\* before were indexed
LoadTransformsImportFails(order, broken) ==
    /\ reg.loads < MaxLoads
    /\ \E k \in DOMAIN order : order[k].name \in broken
    /\ reg' = LoadModules([i \in DOMAIN BeforeFailure(order, broken) |->
                              ClassNow(BeforeFailure(order, broken)[i])], 1,
                  [reg EXCEPT !.transforms = <<>>, !.entity_transforms = <<>>,
                              !.loads = reg.loads + 1,
                              !.error = "ModuleNotFoundError",
                              !.failed = CHOOSE n \in broken : TRUE],
                  {}, reg.loads + 1)
    /\ UNCHANGED <<tx, graphVars, hashOrder, libc, auxVars, ents, res>>

\* load_entities() where the import of module `broken` raises after the modules
\* of the classes `before` were listed
LoadEntitiesImportFails(before, broken) ==
    /\ reg.entity_loads < MaxLoads
    /\ broken \notin before
    /\ reg' = [reg EXCEPT
                 !.entity_types =
                     [n \in DOMAIN reg.entity_types \cup before |->
                         IF n \in before
                         THEN [module |-> Lower(ClassNameText(n)), name |-> n]
                         ELSE reg.entity_types[n]],
                 !.entity_loads = reg.entity_loads + 1,
                 !.error = "ModuleNotFoundError", !.failed = broken]
    /\ UNCHANGED <<tx, graphVars, hashOrder, libc, auxVars, ents, res>>

(***************************************************************************)
(* transforms/base.py: Transform._executor and run_in_thread. pool is      *)
(* [threads, queued, running, submitted]: the worker threads the executor  *)
(* has spawned, the work items waiting in its queue and those a worker is  *)
(* running, both counted by transform class, and the run_in_thread calls   *)
(* made so far.                                                            *)
(***************************************************************************)
\* ThreadPoolExecutor(max_workers=10)
PoolWorkers == 10

\* the transform classes whose run awaits run_in_thread
ThreadedTransforms == {TextSearch.name, ReverseImageSearch.name}

PoolInit ==
    [threads |-> 0,
     queued |-> [c \in ThreadedTransforms |-> 0],
     running |-> [c \in ThreadedTransforms |-> 0],
     submitted |-> 0]

\* the work items of all classes in a counter of the pool
Total(count) == count[TextSearch.name] + count[ReverseImageSearch.name]

\* a pool without the limit on its threads
SpawnsUnbounded(p) == TRUE

\* ThreadPoolExecutor._adjust_thread_count: a thread is added while there are
\* fewer than max_workers
SpawnsBelowMax(p) == p.threads < PoolWorkers

\* await loop.run_in_executor(self._executor, self._run_sync, entity, graph) of a
\* transform of class c: the work item is queued; a thread is spawned when no
\* idle worker is left for it and the pool may spawn
RunInThread(c) ==
    /\ pool.submitted < MaxJobs
    /\ pool' = [pool EXCEPT
                  !.queued[c] = @ + 1,
                  !.submitted = @ + 1,
                  !.threads = IF pool.threads - Total(pool.running) > Total(pool.queued)
                              THEN @
                              ELSE IF SpawnsBelowMax(pool) THEN @ + 1 ELSE @]
    /\ UNCHANGED <<tx, graphVars, hashOrder, libc, entityVars, poolFrame>>

\* a worker thread that runs nothing takes a work item of class c from the queue
\* and calls _run_sync
WorkerStarts(c) ==
    /\ pool.queued[c] > 0
    /\ Total(pool.running) < pool.threads
    /\ pool' = [pool EXCEPT !.queued[c] = @ - 1, !.running[c] = @ + 1]
    /\ UNCHANGED <<tx, graphVars, hashOrder, libc, entityVars, poolFrame>>

\* _run_sync of a work item of class c returns or raises: its worker is free
WorkerReturns(c) ==
    /\ pool.running[c] > 0
    /\ pool' = [pool EXCEPT !.running[c] = @ - 1]
    /\ UNCHANGED <<tx, graphVars, hashOrder, libc, entityVars, poolFrame>>

(***************************************************************************)
(* The timeline: TimelineVisual.events beside the Event nodes of the graph *)
(* store (ui/managers/graph_manager.py, ui/views/graph_view.py) and the    *)
(* investigation file (blackaiops.py). tl is [nodes, events, saved, added, *)
(* input, op]: nodes the Event entities of GraphManager.nodes in insertion *)
(* order, events the widget's list as a bag of TimelineEvent [name,        *)
(* source_entity_id] (the list's order is the sort of add_event and is     *)
(* read by no operation here), saved the document of the last save, added  *)
(* the number of entities constructed so far, op the last operation and    *)
(* input the properties handed to the constructor when op made an entity.  *)
(***************************************************************************)
\* value of source_entity_id for a TimelineEvent that has no such attribute
NoSource == ""

NoDocument == [nodes |-> <<>>, timeline_events |-> EmptyBag, written |-> FALSE]

TimelineInit ==
    [nodes |-> <<>>, events |-> EmptyBag, saved |-> NoDocument, added |-> 0,
     input |-> <<>>, op |-> "none"]

TDate == <<"2", "0", "2", "4", "-", "0", "1", "-", "0", "5", " ", "1", "0", ":", "3", "0">>

\* the `properties` of the Event constructor calls of the model: dated with the
\* flag set, dated without the flag, undated with the flag set
EventInputs ==
    {<<[key |-> "name", value |-> PyValue("str", <<"A", "l">>)],
       [key |-> "start_date", value |-> PyValue("str", TDate)],
       [key |-> "end_date", value |-> PyValue("str", TDate)],
       [key |-> "add_to_timeline", value |-> PyValue("bool", <<"T", "r", "u", "e">>)]>>,
     <<[key |-> "name", value |-> PyValue("str", <<"A", "l">>)],
       [key |-> "start_date", value |-> PyValue("str", TDate)],
       [key |-> "end_date", value |-> PyValue("str", TDate)]>>,
     <<[key |-> "name", value |-> PyValue("str", <<"A", "l">>)],
       [key |-> "add_to_timeline", value |-> PyValue("bool", <<"T", "r", "u", "e">>)]>>}

\* properties.get(key, default)
PropertiesGet(items, key, default) ==
    IF \E i \in DOMAIN items : items[i].key = key
    THEN items[CHOOSE i \in DOMAIN items : items[i].key = key].value
    ELSE default

\* Event.start_date and Event.end_date: None for a missing or empty value and for
\* a text strptime rejects, else a datetime (which is true)
HasDate(entity, field) ==
    /\ Truthy(PropertiesGet(entity.props, field, PyValue("NoneType", <<>>)))
    /\ StrpTime(PropertiesGet(entity.props, field, PyValue("NoneType", <<>>)).s, FALSE) /= {}

\* TimelineEvent(name=entity.name, ...) with source_entity_id = entity.id
EntityEvent(entity) ==
    [name |-> PropertiesGet(entity.props, "name", PyValue("str", <<>>)).s,
     source_entity_id |-> entity.data.id]

\* the event the "Add Event" dialog makes
ManualEvent == [name |-> <<"m">>, source_entity_id |-> NoSource]

\* [e for e in events if getattr(e, 'source_entity_id', None) == node_id]
EventsOf(events, node_id) ==
    [e \in {x \in BagToSet(events) : x.source_entity_id = node_id} |-> events[e]]

\* [e for e in events if hasattr(e, 'source_entity_id')]
SourcedEvents(events) ==
    [e \in {x \in BagToSet(events) : x.source_entity_id /= NoSource} |-> events[e]]

\* the timeline part of GraphManager.add_node on a new node
AddNodeEvents(events, entity) ==
    IF /\ HasDate(entity, "start_date")
       /\ HasDate(entity, "end_date")
       /\ Truthy(PropertiesGet(entity.props, "add_to_timeline",
                               PyValue("bool", <<"T", "r", "u", "e">>)))
    THEN events (+) SetToBag({EntityEvent(entity)})
    ELSE events

\* GraphManager.add_node on the Event nodes and the events: a known id returns
\* the existing node and changes nothing
AddNodeT(t, entity) ==
    IF \E i \in DOMAIN t.nodes : t.nodes[i].data.id = entity.data.id
    THEN t
    ELSE [t EXCEPT !.nodes = Append(@, entity),
                   !.events = AddNodeEvents(@, entity)]

\* GraphView.sync_event_to_timeline
SyncEventToTimeline(events, entity) ==
    IF HasDate(entity, "start_date") /\ HasDate(entity, "end_date")
    THEN (events (-) EventsOf(events, entity.data.id)) (+) SetToBag({EntityEvent(entity)})
    ELSE events

\* Event.from_dict: the date texts are parsed and formatted again (None when
\* strptime rejects them), then Entity.from_dict
EventFromDict(d, fresh, c) ==
    FromDict([d EXCEPT !.properties =
                 [i \in DOMAIN d.properties |->
                     IF /\ d.properties[i].key \in {"start_date", "end_date"}
                        /\ Truthy(d.properties[i].value)
                        /\ d.properties[i].value.ty = "str"
                     THEN [key |-> d.properties[i].key,
                           value |-> IF DateTimeValidate(d.properties[i].value, c).ok
                                     THEN DateTimeValidate(d.properties[i].value, c).value
                                     ELSE PyValue("NoneType", <<>>)]
                     ELSE d.properties[i]]],
             fresh, c)

\* entity.update_label()
UpdateLabel(e) == [e EXCEPT !.label = LabelOf(e.class, e.props)]

\* the node loop of load_investigation from node i of the document on
RECURSIVE LoadNodes(_, _, _, _)
LoadNodes(t, doc, i, c) ==
    IF i > Len(doc.nodes) THEN t
    ELSE LoadNodes(AddNodeT(t, UpdateLabel(EventFromDict(doc.nodes[i].properties, "", c))),
                   doc, i + 1, c)

\* entity = Event(properties=items); graph_manager.add_node(entity), as the
\* transform action of a node and the AI dock add what they made
GraphManagerAddNode(items) ==
    /\ tl.added < MaxAdded
    /\ Len(tl.nodes) < MaxEventNodes
    /\ \E made \in {Construct("Event", <<>>, items, UuidPool[tl.added + 1], libc)} :
          /\ made.ok
          /\ tl' = [AddNodeT(tl, made.entity) EXCEPT !.added = @ + 1, !.input = items,
                                                     !.op = "add_node"]
    /\ UNCHANGED <<tx, graphVars, hashOrder, libc, entityVars, tlFrame>>

\* entity = Event(properties=items); GraphView.add_node(entity): add_node of the
\* graph manager, then sync_event_to_timeline
GraphViewAddNode(items) ==
    /\ tl.added < MaxAdded
    /\ Len(tl.nodes) < MaxEventNodes
    /\ \E made \in {Construct("Event", <<>>, items, UuidPool[tl.added + 1], libc)} :
          /\ made.ok
          /\ \E t \in {AddNodeT(tl, made.entity)} :
                tl' = [t EXCEPT !.events = SyncEventToTimeline(@, made.entity),
                                !.added = @ + 1, !.input = items,
                                !.op = "view_add_node"]
    /\ UNCHANGED <<tx, graphVars, hashOrder, libc, entityVars, tlFrame>>

\* GraphManager.remove_node(node_id) of an Event node: the node goes, and the
\* events whose source_entity_id is node_id are deleted
RemoveEventNode(i) ==
    /\ i \in DOMAIN tl.nodes
    /\ tl' = [tl EXCEPT !.nodes = RemoveAt(@, i),
                        !.events = @ (-) EventsOf(@, tl.nodes[i].data.id),
                        !.input = <<>>, !.op = "remove_node"]
    /\ UNCHANGED <<tx, graphVars, hashOrder, libc, entityVars, tlFrame>>

\* GraphManager.clear(): edges, nodes and groups are cleared
ClearGraph ==
    /\ tl.nodes /= <<>>
    /\ tl' = [tl EXCEPT !.nodes = <<>>, !.input = <<>>, !.op = "clear"]
    /\ UNCHANGED <<tx, graphVars, hashOrder, libc, entityVars, tlFrame>>

\* MainWindow.new_investigation, answered Yes: clear(), then events.clear()
NewInvestigation ==
    /\ tl.op /= "new"
    /\ tl' = [tl EXCEPT !.nodes = <<>>, !.events = EmptyBag, !.input = <<>>,
                        !.op = "new"]
    /\ UNCHANGED <<tx, graphVars, hashOrder, libc, entityVars, tlFrame>>

\* TimelineManager.show_add_event_dialog, accepted
ShowAddEventDialog ==
    /\ BagCardinality(tl.events) < MaxTimeline
    /\ tl' = [tl EXCEPT !.events = @ (+) SetToBag({ManualEvent}), !.input = <<>>,
                        !.op = "add_event"]
    /\ UNCHANGED <<tx, graphVars, hashOrder, libc, entityVars, tlFrame>>

\* MainWindow.save_investigation: every node with its to_dict(), and the events
\* that have no source_entity_id
SaveInvestigation ==
    /\ tl' = [tl EXCEPT
                !.saved = [nodes |-> [i \in DOMAIN tl.nodes |->
                                         [id |-> tl.nodes[i].data.id,
                                          entity_type |-> tl.nodes[i].class,
                                          properties |-> ToDict(tl.nodes[i])]],
                           timeline_events |-> tl.events (-) SourcedEvents(tl.events),
                           written |-> TRUE],
                !.input = <<>>,
                !.op = "save"]
    /\ UNCHANGED <<tx, graphVars, hashOrder, libc, entityVars, tlFrame>>

\* MainWindow.load_investigation of the saved file: clear(), the events without
\* source_entity_id are dropped, the nodes are added with add_node, the
\* document's events are added
LoadedTimeline(t, c) ==
    [LoadNodes([t EXCEPT !.nodes = <<>>, !.events = SourcedEvents(@)], t.saved, 1, c)
        EXCEPT !.events = @ (+) t.saved.timeline_events, !.input = <<>>, !.op = "load"]

LoadInvestigation ==
    /\ tl.saved.written
    /\ \E t \in {LoadedTimeline(tl, libc)} :
          /\ BagCardinality(t.events) <= MaxTimeline
          /\ tl' = t
    /\ UNCHANGED <<tx, graphVars, hashOrder, libc, entityVars, tlFrame>>

(***************************************************************************)
(* Concurrent transform invocations (transforms/base.py and the four       *)
(* transforms). A run of TextSearch or ReverseImageSearch hands _run_sync  *)
(* to Transform._executor and awaits the future; a run of EmailLookup or   *)
(* UsernameSearch awaits its HTTP client on the event loop. The requests   *)
(* of _run_sync (requests.get without timeout) and of the clients may      *)
(* never return. inv counts the invocations by place and by whether their  *)
(* call hangs: queued in the executor, running in one of its workers,      *)
(* awaiting on the event loop, delivered, and fired so far.                *)
(***************************************************************************)
InvInit ==
    [queued |-> [hangs \in BOOLEAN |-> 0], running |-> [hangs \in BOOLEAN |-> 0],
     awaiting |-> [hangs \in BOOLEAN |-> 0], delivered |-> 0, fired |-> 0]

\* invocations of either kind counted by count
Both(count) == count[TRUE] + count[FALSE]

\* run of a thread-offloaded transform up to `await self.run_in_thread(...)`:
\* loop.run_in_executor submits _run_sync to the executor's queue
FireThreaded(hangs) ==
    /\ inv.fired < MaxFired
    /\ inv' = [inv EXCEPT !.queued[hangs] = @ + 1, !.fired = @ + 1]
    /\ UNCHANGED <<tx, graphVars, hashOrder, libc, entityVars, invFrame>>

\* a worker of the executor takes a queued _run_sync: one of max_workers threads
\* is running nothing
WorkerTakes(hangs) ==
    /\ inv.queued[hangs] > 0
    /\ Both(inv.running) < PoolWorkers
    /\ inv' = [inv EXCEPT !.queued[hangs] = @ - 1, !.running[hangs] = @ + 1]
    /\ UNCHANGED <<tx, graphVars, hashOrder, libc, entityVars, invFrame>>

\* _run_sync returns: the worker is free, the future resolves and the awaiting
\* run returns its result
RunSyncReturns ==
    /\ inv.running[FALSE] > 0
    /\ inv' = [inv EXCEPT !.running[FALSE] = @ - 1, !.delivered = @ + 1]
    /\ UNCHANGED <<tx, graphVars, hashOrder, libc, entityVars, invFrame>>

\* run of EmailLookup or UsernameSearch up to its first await of the client
FireAsync(hangs) ==
    /\ inv.fired < MaxFired
    /\ inv' = [inv EXCEPT !.awaiting[hangs] = @ + 1, !.fired = @ + 1]
    /\ UNCHANGED <<tx, graphVars, hashOrder, libc, entityVars, invFrame>>

\* the awaited client call returns and run returns its result
AwaitReturns ==
    /\ inv.awaiting[FALSE] > 0
    /\ inv' = [inv EXCEPT !.awaiting[FALSE] = @ - 1, !.delivered = @ + 1]
    /\ UNCHANGED <<tx, graphVars, hashOrder, libc, entityVars, invFrame>>

(***************************************************************************)
(* ui/managers/group_manager.py: the groups. grp is [groups, pc, ret]:     *)
(* groups the dict as a function from the number n of the key "group_n" to *)
(* the NodeGroup [name, nodes], pc "while" when a create_group call is in  *)
(* its while loop for good (the call runs on the GUI thread, so nothing    *)
(* else runs then), ret the number of the group the last create_group call *)
(* returned (-1 for none).                                                 *)
(***************************************************************************)
GroupsInit == [groups |-> <<>>, pc |-> "idle", ret |-> -1]

GroupNames == {"a", "b"}

\* the dict size, len(self.groups)
GroupCount(g) == Cardinality(DOMAIN g)

\* the while loop of create_group: group_id is f"group_{len(self.groups)}", and
\* while it is in use it is set to f"group_{len(self.groups) + 1}"; the loop
\* ends with [found |-> TRUE, id] or never ends
GroupId(g) ==
    IF GroupCount(g) \notin DOMAIN g
    THEN [found |-> TRUE, id |-> GroupCount(g)]
    ELSE IF GroupCount(g) + 1 \notin DOMAIN g
         THEN [found |-> TRUE, id |-> GroupCount(g) + 1]
         ELSE [found |-> FALSE, id |-> -1]

\* self.groups[group_id] = group
SetGroup(g, id, group) ==
    [k \in DOMAIN g \cup {id} |-> IF k = id THEN group ELSE g[k]]

\* create_group(name, node_ids)
CreateGroup(name, node_ids) ==
    /\ grp.pc = "idle"
    /\ GroupCount(grp.groups) < MaxGroups
    /\ \E chosen \in {GroupId(grp.groups)} :
          IF chosen.found
          THEN grp' = [grp EXCEPT
                          !.groups = SetGroup(@, chosen.id,
                                              [name |-> name,
                                               nodes |-> node_ids \cap NodeKeys(Graph)]),
                          !.ret = chosen.id]
          ELSE grp' = [grp EXCEPT !.pc = "while"]
    /\ UNCHANGED <<tx, graphVars, hashOrder, libc, entityVars, grpFrame>>

\* delete_group(group_id)
DeleteGroup(id) ==
    /\ grp.pc = "idle"
    /\ id \in DOMAIN grp.groups
    /\ grp' = [grp EXCEPT !.groups = [k \in DOMAIN @ \ {id} |-> @[k]], !.ret = -1]
    /\ UNCHANGED <<tx, graphVars, hashOrder, libc, entityVars, grpFrame>>

(***************************************************************************)
(* Loading operations (ui/managers/status_manager.py) of the runs of the   *)
(* four transforms. ld is [active, runs, started]: active the handles that *)
(* start_loading returned and stop_loading has not been called with, runs  *)
(* the runs that have not returned, each [cls, pc, op] with op its handle  *)
(* (0 while it has none), started the number of start_loading calls.       *)
(***************************************************************************)
LoadingInit == [active |-> {}, runs |-> <<>>, started |-> 0]

\* how the body of a run ends: with entities, with none, or with an exception
\* raised by one of its calls
RunOutcomes == {"results", "no results", "error"}

\* run is called with an entity of the input type that has the property the
\* transform reads, or with one that has not (run returns [] at once)
RunInputs == {"usable", "unusable"}

\* the classes whose stop_loading call stands in a `finally:` clause
HasNoFinally(cls) == FALSE

\* EmailLookup.run, UsernameSearch.run and ReverseImageSearch.run call
\* stop_loading in the finally clause of the try block that follows
\* start_loading; TextSearch._run_sync calls it after its three searches
HasFinally(cls) ==
    cls \in {EmailLookup.name, UsernameSearch.name, ReverseImageSearch.name}

\* an exception leaves the statements between start_loading and stop_loading:
\* _search_bing, _search_google and _search_image of TextSearch catch Exception
\* themselves and return what they have
Propagates(cls, outcome) ==
    outcome = "error" /\ cls /= TextSearch.name

\* the stop_loading call is reached on the way out
StopReached(cls, outcome) ==
    HasFinally(cls) \/ ~Propagates(cls, outcome)

\* StatusManager.start_loading: a new handle, now active
StartLoading(l) ==
    [l EXCEPT !.active = @ \cup {l.started + 1}, !.started = @ + 1]

\* StatusManager.stop_loading(uuid)
StopLoading(l, uuid) == [l EXCEPT !.active = @ \ {uuid}]

\* transform.run(entity, graph) up to its first await: the early returns, then
\* start_loading, except for TextSearch, which awaits run_in_thread first
Run(cls, input) ==
    /\ Len(ld.runs) < MaxRuns
    /\ ld.started + Len(SelectSeq(ld.runs, LAMBDA r : r.op = 0)) < MaxLoading
    /\ IF input = "unusable"
       THEN ld' = ld
       ELSE IF cls = TextSearch.name
            THEN ld' = [ld EXCEPT !.runs = Append(@, [cls |-> cls, pc |-> "queued", op |-> 0])]
            ELSE \E l \in {StartLoading(ld)} :
                    ld' = [l EXCEPT !.runs = Append(@, [cls |-> cls, pc |-> "body",
                                                         op |-> l.started])]
    /\ UNCHANGED <<tx, graphVars, hashOrder, libc, entityVars, ldFrame>>

\* TextSearch._run_sync up to its searches, in a worker of the executor
RunSyncStarts(i) ==
    /\ i \in DOMAIN ld.runs
    /\ ld.runs[i].pc = "queued"
    /\ \E l \in {StartLoading(ld)} :
          ld' = [l EXCEPT !.runs[i] = [cls |-> ld.runs[i].cls, pc |-> "body",
                                       op |-> l.started]]
    /\ UNCHANGED <<tx, graphVars, hashOrder, libc, entityVars, ldFrame>>

\* the rest of the run, from the statements after start_loading to its return
RunExits(i, outcome) ==
    /\ i \in DOMAIN ld.runs
    /\ ld.runs[i].pc = "body"
    /\ \E l \in {IF StopReached(ld.runs[i].cls, outcome)
                 THEN StopLoading(ld, ld.runs[i].op) ELSE ld} :
          ld' = [l EXCEPT !.runs = RemoveAt(@, i)]
    /\ UNCHANGED <<tx, graphVars, hashOrder, libc, entityVars, ldFrame>>

(***************************************************************************)
(* Initial state and the specifications.                                   *)
(***************************************************************************)
WJohn == <<"j", "o", "h", "n">>

WJane == <<"j", "a", "n", "e">>

WDoe == <<"d", "o", "e">>

\* orders in which this process iterates a set of words: the order follows the
\* words' hashes, which PYTHONHASHSEED randomises per process
HashOrders ==
    {<<WDoe, WJohn, WJane>>,
     <<WJohn, WJane, WDoe>>}

NoMerge == <<>>

Init ==
    /\ tx = TxIdle
    /\ nodes = <<>>
    /\ edges = {}
    /\ ret = NoRet
    /\ tasks = <<>>
    /\ hashOrder \in HashOrders
    /\ merge = NoMerge
    /\ libc \in Libcs
    /\ ents = <<>>
    /\ res = NoRes
    /\ reg = RegInit
    /\ pool = PoolInit
    /\ tl = TimelineInit
    /\ inv = InvInit
    /\ grp = GroupsInit
    /\ ld = LoadingInit

NextTransform ==
    \/ \E t \in Transforms, c \in EntityClassNames : Execute(t, c)
    \/ \E r \in RunResults : RunReturns(r)
    \/ \E ty \in RunExceptionTypes, m \in RunMessages :
            RunRaises([type |-> ty, msg |-> m])

SpecTransform == Init /\ [][NextTransform]_vars

NextGraph ==
    \/ \E id \in Ids, cls \in GraphClasses : AddNode(id, cls)
    \/ \E a \in Ids, b \in Ids, r \in Relationships : AddEdge(a, b, r)
    \/ \E k \in Ids : \E id \in Ids, cls \in GraphClasses : UpdateNode(k, id, cls)
    \/ \E k \in Ids : RemoveNode(k)
    \/ Clear

SpecGraph == Init /\ [][NextGraph]_vars

NodeClasses == {"Email", "Username"}

NextNode ==
    \/ \E id \in Ids, cls \in NodeClasses : AddNode(id, cls)
    \/ \E k \in Ids \cup Range(UuidPool) : RemoveNode(k)
    \/ \E k \in Ids, t \in Transforms : HandleTransformAction(k, t)
    \/ \E i \in 1..MaxTasks, r \in NodeRunResults : ExecuteTransformReturns(i, r)
    \/ \E i \in 1..MaxTasks, ty \in RunExceptionTypes, m \in RunMessages :
            ExecuteTransformRaises(i, [type |-> ty, msg |-> m])

SpecNode == Init /\ [][NextNode]_vars

\* the entities of an AI answer
MergeInputs ==
    {[type |-> "Person", properties |-> [full_name |-> TJaneDoe, occupation |-> TClerk]],
     [type |-> "Person",
      properties |-> [full_name |-> TJaneDoeLower, nationality |-> TIrish,
                      notes |-> TUnknown]],
     [type |-> "Person", properties |-> [full_name |-> TJohnDoe]],
     [type |-> "Event", properties |-> [name |-> TRobberyAtBank]],
     [type |-> "Event", properties |-> [name |-> TBankRobbery]],
     [type |-> "Alien", properties |-> [full_name |-> TJaneDoe]]}

\* the connections of an AI answer
MergeConnections ==
    {[byIndex |-> TRUE, from |-> 0, to |-> 1, fromLabel |-> <<"">>, toLabel |-> <<"">>,
      relationship |-> "knows"],
     [byIndex |-> FALSE, from |-> 0, to |-> 0, fromLabel |-> TJohnDoe,
      toLabel |-> TJaneDoe, relationship |-> ""]}

NextMerge ==
    \/ \E es \in SeqsUpTo(MergeInputs, MaxBatch), cs \in SeqsUpTo(MergeConnections, MaxConns) :
            CreateEntities([entities |-> es, connections |-> cs])
    \/ Clear

SpecMerge == Init /\ [][NextMerge]_vars

NextEntity ==
    \/ \E inp \in PropertyInputs : ConstructEntity(inp.cls, inp.items)
    \/ \E i \in 1..MaxEnts : ValidatePropertiesCall(i)
    \/ \E i \in 1..MaxEnts, u \in EditInputs : EditProperties(i, u)
    \/ \E i \in 1..MaxEnts : UpdateDataCall(i)
    \/ \E i \in 1..MaxEnts : FromDictCall(i)

\* the entity operations iterate no set of str: one iteration order is enough
InitEntity == Init /\ hashOrder = <<WDoe, WJohn, WJane>>

SpecEntity == InitEntity /\ [][NextEntity]_vars

NextRegistry ==
    \/ \E t \in Transforms, ty \in RegisteredTypes : RegisterInputType(t.name, ty)
    \/ \E o \in ListingOrders : LoadTransforms(o)
    \/ LoadEntities

\* the loaders iterate no set of str and format no date
InitRegistry == Init /\ hashOrder = <<WDoe, WJohn, WJane>> /\ libc = "glibc"

SpecRegistry == InitRegistry /\ [][NextRegistry]_vars

\* discovery where a third-party package is missing
NextDiscovery ==
    \/ \E o \in ListingOrders : LoadTransforms(o)
    \/ LoadEntities
    \/ \E o \in ListingOrders : LoadTransformsImportFails(o, UnimportableTransforms)
    \/ \E before \in ListedBefore, b \in UnimportableEntities :
          LoadEntitiesImportFails(before, b)

SpecDiscovery == InitRegistry /\ [][NextDiscovery]_vars

NextPool ==
    \/ \E c \in ThreadedTransforms : RunInThread(c)
    \/ \E c \in ThreadedTransforms : WorkerStarts(c)
    \/ \E c \in ThreadedTransforms : WorkerReturns(c)

SpecPool == InitRegistry /\ [][NextPool]_vars

NextTimeline ==
    \/ \E items \in EventInputs : GraphManagerAddNode(items)
    \/ \E items \in EventInputs : GraphViewAddNode(items)
    \/ \E i \in 1..MaxEventNodes : RemoveEventNode(i)
    \/ ClearGraph
    \/ NewInvestigation
    \/ ShowAddEventDialog
    \/ SaveInvestigation
    \/ LoadInvestigation

SpecTimeline == InitRegistry /\ [][NextTimeline]_vars

NextGroups ==
    \/ \E name \in GroupNames, node_ids \in SUBSET Ids : CreateGroup(name, node_ids)
    \/ \E id \in 0..(MaxGroups + 1) : DeleteGroup(id)

SpecGroups == InitRegistry /\ [][NextGroups]_vars

NextLoading ==
    \/ \E t \in Transforms, input \in RunInputs : Run(t.name, input)
    \/ \E i \in 1..MaxRuns : RunSyncStarts(i)
    \/ \E i \in 1..MaxRuns, outcome \in RunOutcomes : RunExits(i, outcome)

SpecLoading == InitRegistry /\ [][NextLoading]_vars

\* a run whose handle is active takes one of its ways out, and a queued
\* _run_sync is started by a worker
FairLoading ==
    /\ SpecLoading
    /\ \A i \in 1..MaxRuns : WF_vars(RunSyncStarts(i))
    /\ \A i \in 1..MaxRuns : WF_vars(\E outcome \in RunOutcomes : RunExits(i, outcome))

NextInvocations ==
    \/ \E hangs \in BOOLEAN : FireThreaded(hangs)
    \/ \E hangs \in BOOLEAN : WorkerTakes(hangs)
    \/ RunSyncReturns
    \/ \E hangs \in BOOLEAN : FireAsync(hangs)
    \/ AwaitReturns

SpecInvocations == InitRegistry /\ [][NextInvocations]_vars

\* the scheduling the code relies on: a free worker thread takes the next work
\* item of the executor's queue, a body whose calls return reaches its return,
\* and the event loop resumes a coroutine whose awaited call has returned
FairInvocations ==
    /\ SpecInvocations
    /\ \A hangs \in BOOLEAN : WF_vars(WorkerTakes(hangs))
    /\ WF_vars(RunSyncReturns)
    /\ WF_vars(AwaitReturns)

(***************************************************************************)
(* Properties of Transform.execute (SpecTransform).                        *)
(***************************************************************************)
\* C1: execute called with an entity whose type is not in the transform's
\* input_types raises TransformValidationError to the caller, and run is never
\* invoked for that invocation.
C1_WrongInputRaisesValidationError ==
    (tx.pc = "Failed" /\ ~ValidateInput(tx.transform, tx.entity))
        => /\ tx.out.kind = "raised"
           /\ tx.out.type = "TransformValidationError"
           /\ tx.runCalls = 0

\* an invocation rejected at input validation, as its caller sees it
C1_Witness ==
    /\ tx.pc = "Failed"
    /\ tx.transform = EmailLookup
    /\ tx.entity = "Person"
    /\ tx.runCalls = 0
    /\ tx.out.type = "TransformExecutionError"
    /\ tx.out.cause = "TransformValidationError"

\* C2: when run returns a list holding an entity whose type is not in
\* output_types, or returns a non-list, execute raises
\* TransformValidationError and returns no entities.
C2_WrongOutputRaisesValidationError ==
    (tx.run.kind = "returned" /\ ~ValidateOutput(tx.transform, tx.run.value))
        => /\ tx.pc = "Failed"
           /\ tx.out.kind = "raised"
           /\ tx.out.type = "TransformValidationError"

\* an invocation whose run returned an entity of a type outside output_types
C2_Witness ==
    /\ tx.pc = "Failed"
    /\ tx.transform = ReverseImageSearch
    /\ tx.run.kind = "returned"
    /\ tx.run.value = [isList |-> TRUE, items |-> <<"Person">>]
    /\ tx.out.type = "TransformExecutionError"
    /\ tx.out.cause = "TransformValidationError"

Incident(e, key) == e.source.key = key \/ e.target.key = key

\* C5: in every state reachable by add_node, add_edge, update_node(node_id,
\* entity), remove_node and clear, the source id and the target id of every edge
\* in edges are both keys of nodes.
C5_EdgeEndpointsAreNodes ==
    \A e \in edges : e.source.key \in NodeKeys(Graph) /\ e.target.key \in NodeKeys(Graph)

\* an edge is still stored although the node it starts from has been removed
C5_Witness ==
    /\ ret.op = "remove_node"
    /\ \E e \in edges : e.source.key \notin NodeKeys(Graph)

\* C6: add_edge(a, b) called when an edge for the ordered pair (a, b) already
\* exists returns that edge and leaves edges unchanged, whatever relationship is
\* passed; edges never holds two edges for one ordered pair; add_edge with a
\* missing endpoint returns no edge and leaves edges unchanged.
C6_AddEdgeIdempotent ==
    [][\A a \in Ids, b \in Ids, r \in Relationships :
          AddEdge(a, b, r) =>
             /\ EdgeId(a, b) \in EdgeIds(Graph)
                   => edges' = edges /\ ret'.edge = EdgeId(a, b)
             /\ (a \notin NodeKeys(Graph) \/ b \notin NodeKeys(Graph))
                   => edges' = edges /\ ret'.edge = <<>>
             /\ \A e \in edges', f \in edges' : e.id = f.id => e = f]_vars

\* add_edge has answered None although the graph holds edges
C6_Witness ==
    /\ ret.op = "add_edge"
    /\ ret.edge = <<>>
    /\ ret.log = "Cannot create edge: node not found"
    /\ edges /= {}
    /\ nodes = <<>>

\* C7: after remove_node(id) on an existing node, id is no longer in nodes, no
\* edge whose source or target is id remains, and every other node and every
\* edge not incident to id is still present; remove_node on an unknown id
\* changes nothing.
C7_RemoveNodeCascades ==
    [][\A k \in Ids :
          RemoveNode(k) =>
             IF k \in NodeKeys(Graph)
             THEN /\ \A i \in DOMAIN nodes' : nodes'[i].key /= k
                  /\ \A e \in edges' : ~Incident(e, k)
                  /\ \A i \in DOMAIN nodes :
                        nodes[i].key /= k => \E j \in DOMAIN nodes' : nodes'[j] = nodes[i]
                  /\ \A e \in edges :
                        ~Incident(e, k) => \E f \in edges' : f.id = e.id
             ELSE nodes' = nodes /\ edges' = edges]_vars

\* remove_node has removed a node and an edge of a removed node is still stored
C7_Witness ==
    /\ ret.op = "remove_node"
    /\ ret.log = ""
    /\ \E e \in edges : ~e.source.live \/ ~e.target.live

(***************************************************************************)
(* Properties of the node transform action (SpecNode).                     *)
(***************************************************************************)
\* C4: if a transform invoked on a graph node fails (input validation failure,
\* exception in run, or output-type violation), the graph store's nodes and
\* edges after the failure are exactly those before the invocation.
C4_FailedTransformLeavesGraph ==
    [][\A i \in DOMAIN tasks :
          /\ \A ty \in RunExceptionTypes, m \in RunMessages :
                ExecuteTransformRaises(i, [type |-> ty, msg |-> m])
                    => nodes' = nodes /\ edges' = edges
          /\ \A r \in NodeRunResults :
                (ExecuteTransformReturns(i, r) /\ ~ValidateOutput(tasks[i].transform, r))
                    => nodes' = nodes /\ edges' = edges]_vars

\* a transform task has ended with the error dialog and a node it added is in
\* the graph store
C4_Witness ==
    /\ ret.op = "transform"
    /\ ret.log = "Transform Error"
    /\ ret.node \in NodeKeys(Graph)
    /\ EntityAt(Graph, ret.node).class = "Website"

(***************************************************************************)
(* Properties of the merge resolver (SpecMerge): one AI answer holding one *)
(* entity and no connection, against the graph as it is.                   *)
(***************************************************************************)
\* _create_entities on an answer holding the one entity `item`
CreateOne(item) == CreateEntities([entities |-> <<item>>, connections |-> <<>>])

\* the places in nodes of the nodes of class cls whose label is `label`, letter
\* case aside
SameLabel(cls, label) ==
    {i \in DOMAIN nodes : /\ nodes[i].entity.class = cls
                          /\ Lower(nodes[i].entity.label) = Lower(label)}

\* C8: when a new entity has the same type and the same label
\* (case-insensitively) as an existing node, it is merged into that node: the
\* number of nodes is unchanged, the node keeps its id, its properties become the
\* union of old and new properties with the new value winning on every colliding
\* key, and its label is re-derived.
C8_ExactMatchMerges ==
    [][\A item \in MergeInputs :
          (/\ item.type \in EntityTypes
           /\ SameLabel(item.type, TempEntity(item).label) /= {}
           /\ CreateOne(item))
          => /\ Len(nodes') = Len(nodes)
             /\ \E i \in SameLabel(item.type, TempEntity(item).label) :
                   /\ nodes'[i].key = nodes[i].key
                   /\ nodes'[i].entity.id = nodes[i].entity.id
                   /\ DOMAIN nodes'[i].entity.props =
                          DOMAIN nodes[i].entity.props \cup DOMAIN TempEntity(item).props
                   /\ \A k \in DOMAIN TempEntity(item).props :
                          nodes'[i].entity.props[k] = TempEntity(item).props[k]
                   /\ \A k \in DOMAIN nodes[i].entity.props \ DOMAIN TempEntity(item).props :
                          nodes'[i].entity.props[k] = nodes[i].entity.props[k]
                   /\ nodes'[i].entity.label =
                          DeriveLabel(item.type, nodes'[i].entity.props)]_vars

\* the graph holds two Event nodes with one and the same label, the second one
\* created by the last answer
C8_Witness ==
    /\ Len(nodes) = 2
    /\ nodes[1].entity.class = "Event"
    /\ nodes[2].entity.class = "Event"
    /\ nodes[1].entity.label = TRobberyAtBank
    /\ nodes[2].entity.label = TRobberyAtBank
    /\ merge = <<[node |-> nodes[2].key, matched |-> FALSE]>>

\* C9: with an existing Event node labelled "Robbery at Main Street Bank", a new
\* Event entity labelled "Bank robbery on Main Street" is merged into the
\* existing node and no new node is created.
C9_EventFuzzyMatchMerges ==
    [][(/\ SameLabel("Event", TRobberyAtBank) /= {}
        /\ SameLabel("Event", TBankRobbery) = {}
        /\ CreateOne([type |-> "Event", properties |-> [name |-> TBankRobbery]]))
       => /\ Len(nodes') = Len(nodes)
          /\ \E i \in SameLabel("Event", TRobberyAtBank) :
                /\ nodes'[i].key = nodes[i].key
                /\ nodes'[i].entity.props.name = TBankRobbery]_vars

\* the two events stand side by side, the second one created by the last answer
C9_Witness ==
    /\ Len(nodes) = 2
    /\ nodes[1].entity.class = "Event"
    /\ nodes[2].entity.class = "Event"
    /\ nodes[1].entity.label = TRobberyAtBank
    /\ nodes[2].entity.label = TBankRobbery
    /\ merge = <<[node |-> nodes[2].key, matched |-> FALSE]>>

\* C10: with an existing Person node labelled "Jane Doe", a new Person entity
\* labelled "John Doe" is never merged into it, and a new node is created.
C10_PersonBelowThreshold ==
    [][(/\ SameLabel("Person", TJaneDoe) /= {}
        /\ SameLabel("Person", TJohnDoe) = {}
        /\ CreateOne([type |-> "Person", properties |-> [full_name |-> TJohnDoe]]))
       => /\ Len(nodes') = Len(nodes) + 1
          /\ \A i \in DOMAIN nodes : nodes'[i] = nodes[i]
          /\ nodes'[Len(nodes')].entity.label = TJohnDoe]_vars

\* the last answer's entity was resolved to the node of Jane Doe the clerk, which
\* now carries the name John Doe
C10_Witness ==
    /\ Len(nodes) = 1
    /\ merge = <<[node |-> nodes[1].key, matched |-> TRUE]>>
    /\ nodes[1].entity.label = TJohnDoe
    /\ nodes[1].entity.props = [full_name |-> TJohnDoe, occupation |-> TClerk]
    /\ hashOrder[1] = WDoe

(***************************************************************************)
(* Determinism of the merge resolver (SpecMerge).                          *)
(***************************************************************************)
\* C11: for the nodes of the graph, in their order, and one new entity type and
\* label, _find_matching_entity returns the same node in every execution, that
\* is under every iteration order of str sets a process can have.
C11_ResolverDeterministic ==
    \A item \in {x \in MergeInputs : x.type \in EntityTypes} :
        \A o1 \in HashOrders, o2 \in HashOrders :
            FindMatchingEntity(o1, ClassNameText(item.type), TempEntity(item).label,
                               ExistingEntities(Graph, 1, <<>>))
            = FindMatchingEntity(o2, ClassNameText(item.type), TempEntity(item).label,
                                 ExistingEntities(Graph, 1, <<>>))

\* the graph holds the Person Jane Doe alone; asked for the Person John Doe, the
\* resolver answers her node in the process that iterates "doe" first and None in
\* the process that iterates "john" first
C11_Witness ==
    /\ Len(nodes) = 1
    /\ nodes[1].entity.class = "Person"
    /\ nodes[1].entity.label = TJaneDoe
    /\ FindMatchingEntity(<<WDoe, WJohn, WJane>>, ClassNameText("Person"), TJohnDoe,
                          ExistingEntities(Graph, 1, <<>>)) = nodes[1].key
    /\ FindMatchingEntity(<<WJohn, WJane, WDoe>>, ClassNameText("Person"), TJohnDoe,
                          ExistingEntities(Graph, 1, <<>>)) = ""

(***************************************************************************)
(* Construction and validation of entities (SpecEntity).                   *)
(***************************************************************************)
\* the keys of the properties handed to the last call that no property_types
\* entry of the class declares
UndeclaredKeys(cls, items) ==
    {items[j].key : j \in DOMAIN items} \ DOMAIN PropertyTypes(cls)

\* C12: a constructor call whose properties hold a key that neither
\* init_properties nor the standard properties declare raises
\* PropertyValidationError, and no entity is made.
C12_UnknownKeyRejected ==
    (res.op = "construct" /\ UndeclaredKeys(res.cls, res.input) /= {})
        => (res.exc = "PropertyValidationError" /\ res.at = 0)

\* Event(properties={"start_date": "soon", "bogus": "Al"}) was called: the call
\* ended with the ValueError of the date validator, the key bogus was not reached
C12_Witness ==
    /\ res.op = "construct"
    /\ res.cls = "Event"
    /\ "bogus" \in UndeclaredKeys(res.cls, res.input)
    /\ res.exc = "ValueError"
    /\ res.at = 0

\* the places of the items that validate_properties refuses when it reaches
\* them: the key is undeclared or its validator raises
OffendingItems(cls, items, c) ==
    {j \in DOMAIN items :
        \/ items[j].key \notin DOMAIN PropertyTypes(cls)
        \/ ~Validate(PropertyValidators(cls)[items[j].key], items[j].value, c).ok}

\* the properties validate_properties walked in the last call
ValidatedItems ==
    IF res.op = "construct" THEN InitProperties(res.cls, res.input) ELSE res.input

\* C13: when validate_properties rejects, in a constructor or called again, the
\* error is a PropertyValidationError whose property_name is the first offending
\* key in iteration order, and the items after it are left as they were.
C13_RejectionNamesFirstOffendingKey ==
    (/\ res.op \in {"construct", "validate_properties"}
     /\ res.exc /= ""
     /\ OffendingItems(res.cls, ValidatedItems, libc) /= {})
        => \E first \in OffendingItems(res.cls, ValidatedItems, libc) :
              /\ \A j \in OffendingItems(res.cls, ValidatedItems, libc) : first <= j
              /\ res.exc = "PropertyValidationError"
              /\ res.property_name = ValidatedItems[first].key
              /\ res.op = "validate_properties"
                     => \A k \in DOMAIN ValidatedItems :
                            k >= first => ents[res.at].props[k] = ValidatedItems[k]

\* a call rejected by the date validator of Event: start_date is the first
\* offending key, the error is a ValueError and carries no property name
C13_Witness ==
    /\ res.op \in {"construct", "validate_properties"}
    /\ res.cls = "Event"
    /\ \E first \in OffendingItems(res.cls, ValidatedItems, libc) :
          /\ \A j \in OffendingItems(res.cls, ValidatedItems, libc) : first <= j
          /\ ValidatedItems[first].key = "start_date"
    /\ res.exc = "ValueError"
    /\ res.property_name = ""

\* the same statement for the validators of entities/base.py alone: it holds
C13_BaseValidatorsNameFirstOffendingKey ==
    (/\ res.op \in {"construct", "validate_properties"}
     /\ res.exc /= ""
     /\ res.cls /= "Event"
     /\ OffendingItems(res.cls, ValidatedItems, libc) /= {})
        => \E first \in OffendingItems(res.cls, ValidatedItems, libc) :
              /\ \A j \in OffendingItems(res.cls, ValidatedItems, libc) : first <= j
              /\ res.exc = "PropertyValidationError"
              /\ res.property_name = ValidatedItems[first].key
              /\ res.op = "validate_properties"
                     => \A k \in DOMAIN ValidatedItems :
                            k >= first => ents[res.at].props[k] = ValidatedItems[k]

\* C14: validation is idempotent: a validate_properties call that follows, with
\* nothing in between, a constructor or a validate_properties call that ended
\* without raising on the same entity never raises and leaves properties as
\* they are.
C14_SecondValidationChangesNothing ==
    [][(/\ res.op \in {"construct", "validate_properties"}
        /\ res.exc = ""
        /\ res.at \in DOMAIN ents
        /\ res'.op = "validate_properties"
        /\ res'.at = res.at)
           => (/\ res'.exc = ""
               /\ ents'[res.at].props = ents[res.at].props)]_vars

\* Event(properties={"start_date": "0999-01-01 00:00"}) was made where strftime
\* writes the year without leading zeros: validate_properties stored
\* "999-01-01 00:00", and the second validate_properties call found no date in it
C14_Witness ==
    /\ libc = "glibc"
    /\ res.op = "validate_properties"
    /\ res.cls = "Event"
    /\ res.at \in DOMAIN ents
    /\ res.input = ents[res.at].props
    /\ res.input[1].key = "start_date"
    /\ res.input[1].value.s
           = <<"9", "9", "9", "-", "0", "1", "-", "0", "1", " ", "0", "0", ":", "0", "0">>
    /\ res.input[1].value.s
           = DateTimeValidate(PyValue("str", <<"0">> \o res.input[1].value.s), libc).value.s
    /\ res.exc = "ValueError"

\* where strftime pads the year to four digits the second call changes nothing
C14_IdempotentWithPaddedYears ==
    [][(/\ libc = "msvcrt"
        /\ res.op \in {"construct", "validate_properties"}
        /\ res.exc = ""
        /\ res.at \in DOMAIN ents
        /\ res'.op = "validate_properties"
        /\ res'.at = res.at)
           => (/\ res'.exc = ""
               /\ ents'[res.at].props = ents[res.at].props)]_vars

(***************************************************************************)
(* Serialisation, labels and identity of entities (SpecEntity).            *)
(***************************************************************************)
\* C15: from_dict(to_dict(e)) is an entity of the class of e whose id, type,
\* label, properties and color are those of e.
C15_RoundTripIdentical ==
    res.op = "from_dict"
        => /\ ents[res.at].class = ents[res.src].class
           /\ ents[res.at].data.id = ents[res.src].data.id
           /\ ents[res.at].data.type = ents[res.src].data.type
           /\ ents[res.at].label = ents[res.src].label
           /\ ents[res.at].props = ents[res.src].props
           /\ ents[res.at].data.color = ents[res.src].data.color

\* the Person Al, built by its constructor and untouched since, went through
\* to_dict and from_dict: the copy has its id and properties and the label
\* "Person"
C15_Witness ==
    /\ res.op = "from_dict"
    /\ ents[res.src].class = "Person"
    /\ ents[res.src].label = <<"A", "l">>
    /\ ents[res.src].data.label = <<"A", "l">>
    /\ ents[res.at].data.id = ents[res.src].data.id
    /\ ents[res.at].props = ents[res.src].props
    /\ ents[res.at].label = TPerson

\* what the round trip does keep: the class, and the id, type, properties and
\* color of the EntityData
C15_RoundTripKeepsData ==
    res.op = "from_dict"
        => /\ ents[res.at].class = ents[res.src].class
           /\ ents[res.at].data.id = ents[res.src].data.id
           /\ ents[res.at].data.type = ents[res.src].data.type
           /\ ents[res.at].props = ents[res.src].props
           /\ ents[res.at].data.color = ents[res.src].data.color

\* C16: the label of every entity, however it was made or changed, is what the
\* update_label of its class derives from its current properties.
C16_LabelFollowsProperties ==
    \A i \in DOMAIN ents : ents[i].label = LabelOf(ents[i].class, ents[i].props)

\* an entity restored by from_dict whose properties derive the label "Al" and
\* whose label is the display name of its class
C16_Witness ==
    /\ res.op = "from_dict"
    /\ LabelOf(ents[res.at].class, ents[res.at].props) = <<"A", "l">>
    /\ ents[res.at].label = DeriveLabel(ents[res.at].class, <<>>)
    /\ ents[res.at].label /= <<"A", "l">>

\* the constructor, the property editor and update_data do leave the label that
\* the properties derive
C16_LabelDerivedByConstructorAndEdit ==
    [][(res'.op \in {"construct", "edit_properties", "update_data"} /\ res'.at \in DOMAIN ents')
           => ents'[res'.at].label = LabelOf(ents'[res'.at].class, ents'[res'.at].props)]_vars

\* C17: two entities compare equal exactly when their ids are equal (the id is
\* assigned once and restored by from_dict, so it is the identity of an entity).
C17_EqualExactlyWhenSameId ==
    \A i \in DOMAIN ents, j \in DOMAIN ents :
        i /= j => (EntityEq(ents[i], ents[j]) <=> ents[i].data.id = ents[j].data.id)

\* two Person objects made by two constructor calls with the same properties:
\* each drew its own id, and a == b is True
C17_Witness ==
    /\ res.op = "construct"
    /\ Len(ents) = 2
    /\ ents[1].class = "Person"
    /\ ents[1].data.id /= ents[2].data.id
    /\ EntityEq(ents[1], ents[2])

\* the id of an entity never changes once assigned: no step changes the id of an
\* object of ents
C17_IdNeverChanges ==
    [][\A i \in DOMAIN ents : i \in DOMAIN ents' /\ ents'[i].data.id = ents[i].data.id]_vars

\* from_dict restores the serialized id
C17_FromDictRestoresId ==
    res.op = "from_dict" => ents[res.at].data.id = ents[res.src].data.id

(***************************************************************************)
(* Edits of a node's properties (SpecEntity).                              *)
(***************************************************************************)
\* C18: an edit of a node's properties is validated before it is stored: when
\* the edit holds an undeclared key or a value that the validator of its key
\* rejects, it is blocked and the properties stay as they were.
C18_InvalidEditBlocked ==
    [][(/\ res'.op = "edit_properties"
        /\ res'.at \in DOMAIN ents
        /\ OffendingItems(res'.cls, res'.input, libc) /= {})
           => ents'[res'.at].props = ents[res'.at].props]_vars

\* the property editor of a Person was accepted with the text "x" in the field
\* age: the properties of the node now hold age = "x", which the validator of
\* age rejects
C18_Witness ==
    /\ res.op = "edit_properties"
    /\ res.cls = "Person"
    /\ res.input = <<[key |-> "age", value |-> PyValue("str", <<"x">>)]>>
    /\ OffendingItems(res.cls, res.input, libc) = {1}
    /\ \E k \in DOMAIN ents[res.at].props :
          ents[res.at].props[k] = [key |-> "age", value |-> PyValue("str", <<"x">>)]
    /\ OffendingItems(res.cls, ents[res.at].props, libc) /= {}

(***************************************************************************)
(* The domain of an Email (SpecEntity).                                    *)
(***************************************************************************)
\* the value of the item of `items` whose key is `key`
ItemValue(items, key) ==
    items[CHOOSE i \in DOMAIN items : items[i].key = key].value

\* the keys of the items
ItemKeys(items) == {items[i].key : i \in DOMAIN items}

\* the places of "@" in a text
AtSigns(s) == {i \in DOMAIN s : s[i] = "@"}

\* C19: Email(properties={"address": a}) with no domain either raises
\* PropertyValidationError and makes no entity, or makes an Email whose
\* properties["domain"] is the part of a after its "@"; it raises when a has no
\* "@" or nothing after it.
C19_EmailDomainFromAddress ==
    (/\ res.op = "construct"
     /\ res.cls = "Email"
     /\ "address" \in ItemKeys(res.input)
     /\ "domain" \notin ItemKeys(res.input))
        => \E a \in {ItemValue(res.input, "address").s} :
              /\ res.exc \in {"", "PropertyValidationError"}
              /\ (AtSigns(a) = {} \/ Len(a) \in AtSigns(a))
                     => res.exc = "PropertyValidationError"
              /\ res.exc = "PropertyValidationError" => res.at = 0
              /\ res.exc = ""
                     => /\ res.at \in DOMAIN ents
                        /\ Cardinality(AtSigns(a)) = 1
                        /\ "domain" \in ItemKeys(ents[res.at].props)
                        /\ \E k \in AtSigns(a) :
                              ItemValue(ents[res.at].props, "domain")
                                  = PyValue("str", SubSeq(a, k + 1, Len(a)))
                        /\ ItemValue(ents[res.at].props, "address") = PyValue("str", a)

\* Email(properties={"address": "u@e.co"}) made an entity whose domain is "e.co"
C19_Witness ==
    /\ res.op = "construct"
    /\ res.cls = "Email"
    /\ res.input = <<[key |-> "address", value |-> PyValue("str", <<"u", "@", "e", ".", "c", "o">>)]>>
    /\ res.exc = ""
    /\ ItemValue(ents[res.at].props, "domain") = PyValue("str", <<"e", ".", "c", "o">>)

\* Email(properties={"address": "not"}) raised PropertyValidationError for
\* address and made no entity
C19_WitnessNoDomain ==
    /\ res.op = "construct"
    /\ res.cls = "Email"
    /\ res.input = <<[key |-> "address", value |-> PyValue("str", <<"n", "o", "t">>)]>>
    /\ res.exc = "PropertyValidationError"
    /\ res.property_name = "address"
    /\ res.at = 0

(***************************************************************************)
(* The registries (SpecRegistry).                                          *)
(***************************************************************************)
\* the transform classes whose input_types hold t
ClassesAccepting(r, t) ==
    {c \in DOMAIN r.input_types : InList(t, r.input_types[c])}

\* ENTITY_TRANSFORMS of r holds, for every entity type t, one instance of every
\* class accepting t and nothing else, the instances being those of TRANSFORMS
IndexExact(r) ==
    /\ \A a, b \in DOMAIN r.entity_transforms :
          r.entity_transforms[a].key = r.entity_transforms[b].key => a = b
    /\ \A k \in DOMAIN r.entity_transforms :
          /\ r.entity_transforms[k].list /= <<>>
          /\ \A x, y \in DOMAIN r.entity_transforms[k].list :
                r.entity_transforms[k].list[x].cls = r.entity_transforms[k].list[y].cls
                    => x = y
          /\ {r.entity_transforms[k].list[x].cls : x \in DOMAIN r.entity_transforms[k].list}
                 = ClassesAccepting(r, r.entity_transforms[k].key)
          /\ \A x \in DOMAIN r.entity_transforms[k].list :
                InList(r.entity_transforms[k].list[x], r.transforms)
    /\ \A t \in EntityClassNames :
          ClassesAccepting(r, t) /= {}
              => \E k \in DOMAIN r.entity_transforms : r.entity_transforms[k].key = t

\* C20: after every run of load_transforms, first or repeated, ENTITY_TRANSFORMS
\* holds for every input type exactly one instance of each transform class
\* accepting it and nothing else; a repeated run of load_entities leaves
\* ENTITY_TYPES the mapping it was.
C20_RegistriesRebuiltExactly ==
    [][/\ reg'.loads /= reg.loads => IndexExact(reg')
       /\ (reg'.entity_loads /= reg.entity_loads /\ reg.entity_loads > 0)
              => reg'.entity_types = reg.entity_types
       /\ reg'.entity_loads /= reg.entity_loads
              => DOMAIN reg'.entity_types = EntityClassNames]_vars

\* both loaders ran twice, and a class that accepts two input types since
\* register_input_type is indexed under both with its instance of the second run
C20_Witness ==
    /\ reg.loads = 2
    /\ reg.entity_loads = 2
    /\ \E c \in DOMAIN reg.input_types :
          /\ Len(reg.input_types[c]) = 2
          /\ \A i \in {1, 2} :
                \E k \in DOMAIN reg.entity_transforms :
                    /\ reg.entity_transforms[k].key = reg.input_types[c][i]
                    /\ InList([cls |-> c, gen |-> 2], reg.entity_transforms[k].list)
                    /\ InList([cls |-> c, gen |-> 2], reg.transforms)

(***************************************************************************)
(* Discovery with a module that cannot be imported (SpecDiscovery).        *)
(***************************************************************************)
\* C21: a loader call during which the import of one module fails raises
\* nothing, and every other module is registered: each importable transform
\* class has its instance in TRANSFORMS and in the index of its input types,
\* each importable entity class is in ENTITY_TYPES.
C21_DiscoverySkipsFailingModule ==
    [][/\ reg'.loads /= reg.loads
          => /\ reg'.error = ""
             /\ \A t \in Transforms :
                   t.name /= reg'.failed
                       => /\ \E x \in DOMAIN reg'.transforms : reg'.transforms[x].cls = t.name
                          /\ t.name \in ClassesAccepting(reg', reg'.input_types[t.name][1])
                          /\ \E k \in DOMAIN reg'.entity_transforms :
                                /\ reg'.entity_transforms[k].key = reg'.input_types[t.name][1]
                                /\ \E x \in DOMAIN reg'.entity_transforms[k].list :
                                      reg'.entity_transforms[k].list[x].cls = t.name
       /\ reg'.entity_loads /= reg.entity_loads
          => /\ reg'.error = ""
             /\ EntityClassNames \ {reg'.failed} \subseteq DOMAIN reg'.entity_types]_vars

\* load_transforms ran where ghunt is missing and email_lookup.py was listed
\* second: ModuleNotFoundError left the call, one class is registered and two
\* importable ones are not
C21_Witness ==
    /\ reg.loads = 1
    /\ reg.error = "ModuleNotFoundError"
    /\ reg.failed = EmailLookup.name
    /\ Len(reg.transforms) = 1
    /\ Cardinality({t \in Transforms :
           /\ t.name /= reg.failed
           /\ ~\E x \in DOMAIN reg.transforms : reg.transforms[x].cls = t.name}) = 2

\* a loader call whose imports all succeed registers every class
C21_DiscoveryCompleteWhenImportsSucceed ==
    [][/\ (reg'.loads /= reg.loads /\ reg'.error = "")
          => \A t \in Transforms :
                \E x \in DOMAIN reg'.transforms : reg'.transforms[x].cls = t.name
       /\ (reg'.entity_loads /= reg.entity_loads /\ reg'.error = "")
          => EntityClassNames \subseteq DOMAIN reg'.entity_types]_vars

(***************************************************************************)
(* The shared thread pool (SpecPool).                                      *)
(***************************************************************************)
\* C22: over the transforms of all classes at most 10 _run_sync bodies run at
\* the same time and the pool never has more than 10 threads; a queued work item
\* starts only when fewer than 10 are running.
C22_AtMostTenRunSyncBodies ==
    [][/\ Total(pool'.running) <= PoolWorkers
       /\ pool'.threads <= PoolWorkers
       /\ Total(pool'.running) > Total(pool.running)
              => Total(pool.running) < PoolWorkers]_vars

\* ten bodies of both classes are running on ten threads and two more work
\* items wait in the queue
C22_Witness ==
    /\ Total(pool.running) = PoolWorkers
    /\ pool.threads = PoolWorkers
    /\ \A c \in ThreadedTransforms : pool.running[c] > 0
    /\ Total(pool.queued) = 2

(***************************************************************************)
(* The add_to_timeline flag of an Event (SpecTimeline).                    *)
(***************************************************************************)
\* the add_to_timeline flag of an Event entity
Flag(entity) ==
    Truthy(PropertiesGet(entity.props, "add_to_timeline", PyValue("NoneType", <<>>)))

\* the Event nodes made by a constructor call that names no add_to_timeline
Unflagged(items) == \A i \in DOMAIN items : items[i].key /= "add_to_timeline"

\* C24: an Event constructed without an explicit add_to_timeline has the flag
\* true, and an Event node has an entity-sourced timeline event only if its
\* flag is true
C24_TimelineEventOnlyWhenFlagged ==
    /\ tl.op \in {"add_node", "view_add_node"} /\ Unflagged(tl.input)
          => Flag(tl.nodes[Len(tl.nodes)])
    /\ \A i \in DOMAIN tl.nodes :
          BagIn(EntityEvent(tl.nodes[i]), tl.events) => Flag(tl.nodes[i])

\* an Event node made without the flag, with dates, was added through
\* GraphView.add_node and has its timeline event
C24_Witness ==
    /\ tl.op = "view_add_node"
    /\ \E i \in DOMAIN tl.nodes :
          /\ ~Flag(tl.nodes[i])
          /\ BagIn(EntityEvent(tl.nodes[i]), tl.events)

\* the part of C24 the code keeps: GraphManager.add_node reads the flag, so a
\* node added through it alone has a timeline event only when the flag is true
C24_AddNodeReadsFlag ==
    [][\A items \in EventInputs :
          GraphManagerAddNode(items) =>
              \A i \in DOMAIN tl'.nodes :
                  (CopiesIn(EntityEvent(tl'.nodes[i]), tl'.events)
                      > CopiesIn(EntityEvent(tl'.nodes[i]), tl.events)) => Flag(tl'.nodes[i])]_vars

(***************************************************************************)
(* Entity-sourced timeline events and their nodes (SpecTimeline).          *)
(***************************************************************************)
\* the ids of the Event nodes of the graph store
EventNodeIds(t) == {t.nodes[i].data.id : i \in DOMAIN t.nodes}

\* C28: in every reachable state each timeline event that carries a source
\* entity id refers to an Event node present in the graph store
C28_SourcedEventsHaveNode ==
    \A e \in BagToSet(tl.events) :
        e.source_entity_id /= NoSource => e.source_entity_id \in EventNodeIds(tl)

\* GraphManager.clear() has removed the nodes and the timeline still holds an
\* event that names one of them
C28_Witness ==
    /\ tl.op = "clear"
    /\ tl.nodes = <<>>
    /\ \E e \in BagToSet(tl.events) : e.source_entity_id /= NoSource

\* the part of C28 the code keeps: remove_node deletes the events of the node
\* it removes, and new_investigation leaves no event
C28_RemoveNodeAndNewDeleteEvents ==
    [][/\ \A i \in 1..MaxEventNodes :
             RemoveEventNode(i) =>
                 \A e \in BagToSet(tl'.events) : e.source_entity_id /= tl.nodes[i].data.id
       /\ NewInvestigation => tl'.events = EmptyBag]_vars

(***************************************************************************)
(* Saving and loading the timeline (SpecTimeline).                         *)
(***************************************************************************)
\* one event for each node of t that has an entity-sourced event in t
RegeneratedEvents(t) ==
    SetToBag({EntityEvent(t.nodes[i]) :
                 i \in {j \in DOMAIN t.nodes : BagIn(EntityEvent(t.nodes[j]), t.events)}})

\* C23: the saved document contains exactly the events without a source entity,
\* and a load that follows the save leaves those events plus one regenerated
\* event for each Event node that had an entity-sourced event when saved
C23_SaveLoadReproducesTimeline ==
    [][/\ SaveInvestigation =>
             tl'.saved.timeline_events = tl.events (-) SourcedEvents(tl.events)
       /\ (LoadInvestigation /\ tl.op = "save") =>
             tl'.events = tl.saved.timeline_events (+) RegeneratedEvents(tl)]_vars

\* a load has followed a save of a dated, flagged Event node: the timeline holds
\* two events that name the node
C23_Witness ==
    /\ tl.op = "load"
    /\ \E i \in DOMAIN tl.nodes :
          /\ Flag(tl.nodes[i])
          /\ CopiesIn(EntityEvent(tl.nodes[i]), tl.events) = 2

\* the part of C23 the code keeps: the saved document holds exactly the events
\* without a source entity, and a load into a timeline without entity-sourced
\* events leaves the document's events plus one event for each dated, flagged
\* node of the document
C23_SavedManualEventsAndFreshLoad ==
    [][/\ SaveInvestigation =>
             tl'.saved.timeline_events = tl.events (-) SourcedEvents(tl.events)
       /\ (LoadInvestigation /\ SourcedEvents(tl.events) = EmptyBag) =>
             /\ EventNodeIds(tl') = {tl.saved.nodes[i].id : i \in DOMAIN tl.saved.nodes}
             /\ tl'.events = tl.saved.timeline_events
                                (+) SetToBag({EntityEvent(tl'.nodes[i]) :
                                       i \in {j \in DOMAIN tl'.nodes :
                                                /\ Flag(tl'.nodes[j])
                                                /\ HasDate(tl'.nodes[j], "start_date")
                                                /\ HasDate(tl'.nodes[j], "end_date")}})]_vars

(***************************************************************************)
(* The order of a node's transform invocation (SpecNode).                  *)
(***************************************************************************)
\* C25: a transform invocation started from a node's transform action starts
\* run only when the input validation passes, and adds none of the returned
\* entities to the graph unless the output-type validation passes
C25_ValidatedBeforeRunAndBeforeInsert ==
    [][/\ \A k \in Ids, t \in Transforms :
             HandleTransformAction(k, t) => ValidateInput(t, EntityAt(Graph, k).class)
       /\ \A i \in DOMAIN tasks, r \in NodeRunResults :
             (ExecuteTransformReturns(i, r) /\ nodes' /= nodes)
                 => ValidateOutput(tasks[i].transform, r)]_vars

\* a transform task has ended without an error and has added a Person node,
\* which no transform of an Email or Username node declares as output
C25_Witness ==
    /\ ret.op = "transform"
    /\ ret.log = ""
    /\ ret.node \in NodeKeys(Graph)
    /\ EntityAt(Graph, ret.node).class = "Person"

\* the part of C25 the code keeps: the context menu offers a node only the
\* transforms registered for its entity type, so run starts on an accepted input
C25_RunStartsOnAcceptedInput ==
    [][\A k \in Ids, t \in Transforms :
          HandleTransformAction(k, t) => ValidateInput(t, EntityAt(Graph, k).class)]_vars

(***************************************************************************)
(* Returned entities and the nodes that exist (SpecNode).                  *)
(***************************************************************************)
\* a node of the graph carries an entity of class cls with the label a fresh
\* cls() has
HasNodeLike(cls) ==
    \E n \in DOMAIN nodes :
        /\ nodes[n].entity.class = cls
        /\ nodes[n].entity.label = NewEntity("", cls, <<>>).label

\* C26: when every entity a transform returns has the type and label of an
\* existing node, adding the results does not increase the number of nodes
C26_ReturnedEntitiesAreMerged ==
    [][\A i \in DOMAIN tasks, r \in NodeRunResults :
          (/\ ExecuteTransformReturns(i, r)
           /\ ValidateOutput(tasks[i].transform, r)
           /\ \A j \in DOMAIN r.items : HasNodeLike(r.items[j]))
              => Len(nodes') = Len(nodes)]_vars

\* a transform task has ended without an error and the graph holds two
\* Username nodes with one label
C26_Witness ==
    /\ ret.op = "transform"
    /\ ret.log = ""
    /\ \E m, n \in DOMAIN nodes :
          /\ m /= n
          /\ nodes[m].entity.class = "Username" /\ nodes[n].entity.class = "Username"
          /\ nodes[m].entity.label = nodes[n].entity.label

\* what _execute_transform does with the entities of an accepted result: each
\* one becomes a node of its own with an edge from the source node
C26_EachReturnedEntityBecomesANode ==
    [][\A i \in DOMAIN tasks, r \in NodeRunResults :
          (/\ ExecuteTransformReturns(i, r)
           /\ ValidateOutput(tasks[i].transform, r)
           /\ tasks[i].self.live)
              => /\ Len(nodes') = Len(nodes) + Len(r.items)
                 /\ Cardinality(edges') = Cardinality(edges) + Len(r.items)]_vars

(***************************************************************************)
(* Hung invocations and the others (FairInvocations).                      *)
(***************************************************************************)
\* invocations whose own calls return and that have not delivered yet
Undelivered == inv.queued[FALSE] + inv.running[FALSE] + inv.awaiting[FALSE]

\* C27: under fair scheduling every invocation whose own calls return
\* eventually delivers its result, whatever the number of hung invocations
C27_OthersDeliverDespiteHung ==
    (Undelivered > 0) ~> (Undelivered = 0)

\* ten hung _run_sync bodies hold the ten workers and an invocation whose calls
\* return waits in the executor's queue
C27_Witness ==
    /\ inv.running[TRUE] = PoolWorkers
    /\ inv.queued[FALSE] > 0

\* the part of C27 the code keeps: an invocation that awaits on the event loop
\* delivers whatever hangs, and a thread-offloaded one delivers while fewer than
\* max_workers hung bodies exist
C27_DeliverWhileAWorkerIsFree ==
    /\ (inv.awaiting[FALSE] > 0) ~> (inv.awaiting[FALSE] = 0)
    /\ (Undelivered > 0) ~> (Undelivered = 0 \/ inv.queued[TRUE] + inv.running[TRUE] >= PoolWorkers)

(***************************************************************************)
(* Group ids (SpecGroups).                                                 *)
(***************************************************************************)
\* C29: after any sequence of create_group and delete_group calls a further
\* create_group call terminates and returns a group whose id no existing group
\* used: no group is overwritten and the number of groups grows by one
C29_CreateGroupTerminatesWithFreshId ==
    [][\A name \in GroupNames, node_ids \in SUBSET Ids :
          CreateGroup(name, node_ids)
              => /\ grp'.pc = "idle"
                 /\ grp'.ret \notin DOMAIN grp.groups
                 /\ \A k \in DOMAIN grp.groups : grp'.groups[k] = grp.groups[k]
                 /\ GroupCount(grp'.groups) = GroupCount(grp.groups) + 1]_vars

\* a create_group call is in its while loop for good: the groups are group_2
\* and group_3
C29_Witness ==
    /\ grp.pc = "while"
    /\ DOMAIN grp.groups = {2, 3}

\* the part of C29 the code keeps: a create_group call that returns has added
\* one group under an id no group used
C29_ReturnedGroupHasFreshId ==
    [][\A name \in GroupNames, node_ids \in SUBSET Ids :
          (CreateGroup(name, node_ids) /\ grp'.pc = "idle")
              => /\ grp'.ret \notin DOMAIN grp.groups
                 /\ \A k \in DOMAIN grp.groups : grp'.groups[k] = grp.groups[k]
                 /\ GroupCount(grp'.groups) = GroupCount(grp.groups) + 1]_vars

====
